---- MODULE Spec2Model ----
(***************************************************************************)
(* RxBridge pharmacy dashboard: the days-of-supply classification of the   *)
(* stock table (PharmacyStockTable.jsx), the compliance-scan table         *)
(* (InventoryScanTable.jsx) fed by the POST /inventory/run response, and   *)
(* the dashboard inventory with its simulated shortage events.             *)
(***************************************************************************)
EXTENDS Integers, Sequences, FiniteSets, TLC

(***************************************************************************)
(* Bounds of the model.                                                    *)
(***************************************************************************)
\* largest stock quantity drawn for an input row
MaxQuantity == 460
\* largest average daily dispense drawn for an input row
MaxDaily == 33
\* how far below zero the drawn numbers reach (parseFloat keeps a minus sign)
NegSpan == 1
\* most simulated shortage events in one dashboard session
MaxEvents == 2
\* how far a row's stock is raised when bands are compared under restocking
RestockSpan == 200

\* largest stock and daily dispense of a backend inventory item
MaxStock == 60
MaxDispense == 4
\* most scans started in one session
MaxScans == 2
\* most times the scan table is mounted in one session
MaxMounts == 2

\* the entries the history stack keeps
MaxHistory == 3

\* the AI recommendation requests of a session
MaxRequests == 3

\* the updatePassword calls, and the signIn and signUp calls, of a session
MaxCalls == 2

Quantities == (0 - NegSpan)..MaxQuantity
Dailies == (0 - NegSpan)..MaxDaily

(***************************************************************************)
(* JavaScript numbers as far as the tables use them: a finite integer or   *)
(* the value Infinity.                                                     *)
(***************************************************************************)
Infinity == [inf |-> TRUE, n |-> 0]
Num(k) == [inf |-> FALSE, n |-> k]

\* x <= k, x < k, x >= k of JavaScript for a finite k
NumLeq(x, k) == (~x.inf) /\ x.n <= k
NumGeq(x, k) == x.inf \/ x.n >= k

\* a < b and a > b of JavaScript between two numbers
NumLess(a, b) == (~a.inf) /\ (b.inf \/ a.n < b.n)
NumGreater(a, b) == NumLess(b, a)

\* Math.floor(a / b) for b # 0
FloorDiv(a, b) == IF b > 0 THEN a \div b ELSE (0 - a) \div (0 - b)

\* Math.max(a, b)
MathMax(a, b) == IF a >= b THEN a ELSE b

(***************************************************************************)
(* JavaScript strings as far as the tables use them.                       *)
(***************************************************************************)
\* the characters of the modelled strings, in the order of their code units
CodeUnits == " ,.0123456789ABCDEFGHIJKLMNOPQRSTUVWXYZabcdefghijklmnopqrstuvwxyz"

CharAt(s, i) == SubSeq(s, i, i)

Chars == {CharAt(CodeUnits, i) : i \in 1..Len(CodeUnits)}

\* the place of a character in the order of the code units
CharCode == [c \in Chars |-> CHOOSE i \in 1..Len(CodeUnits) : CharAt(CodeUnits, i) = c]

Uppers == "ABCDEFGHIJKLMNOPQRSTUVWXYZ"
Lowers == "abcdefghijklmnopqrstuvwxyz"

\* the letter of `to` at the place c has in `from`, or c itself
MapChar(c, from, to) ==
    IF \E i \in 1..Len(from) : CharAt(from, i) = c
    THEN CharAt(to, CHOOSE i \in 1..Len(from) : CharAt(from, i) = c)
    ELSE c

UpperCaseOf == [c \in Chars |-> MapChar(c, Lowers, Uppers)]
LowerCaseOf == [c \in Chars |-> MapChar(c, Uppers, Lowers)]

\* String.prototype.toUpperCase and toLowerCase
RECURSIVE toUpperCase(_)
toUpperCase(s) ==
    IF s = "" THEN ""
    ELSE UpperCaseOf[CharAt(s, 1)] \o toUpperCase(SubSeq(s, 2, Len(s)))

RECURSIVE toLowerCase(_)
toLowerCase(s) ==
    IF s = "" THEN ""
    ELSE LowerCaseOf[CharAt(s, 1)] \o toLowerCase(SubSeq(s, 2, Len(s)))

\* s.includes(t); every string includes the empty string
includes(s, t) ==
    \/ t = ""
    \/ LET str == s IN \E i \in 0..(Len(str) - Len(t)) : SubSeq(str, i + 1, i + Len(t)) = t

\* a < b between two strings: by code units
RECURSIVE StrLess(_, _)
StrLess(a, b) ==
    IF b = "" THEN FALSE
    ELSE IF a = "" THEN TRUE
    ELSE IF CharAt(a, 1) = CharAt(b, 1)
         THEN StrLess(SubSeq(a, 2, Len(a)), SubSeq(b, 2, Len(b)))
         ELSE CharCode[CharAt(a, 1)] < CharCode[CharAt(b, 1)]

\* a string as a value a sort compares
Str(s) == [str |-> s]

\* aValue < bValue between two strings or two numbers
JsLess(aValue, bValue) ==
    IF "str" \in DOMAIN aValue THEN StrLess(aValue.str, bValue.str)
    ELSE NumLess(aValue, bValue)

\* null, and NaN
JsNull == [null |-> TRUE]
NaN == [nan |-> TRUE]

\* Number(value): a number is itself, null is 0, the empty string is 0, the
\* string 'Infinity' is Infinity and any other modelled string is NaN
Number(value) ==
    IF "inf" \in DOMAIN value THEN value
    ELSE IF value = JsNull THEN Num(0)
    ELSE IF value = Str("") THEN Num(0)
    ELSE IF value = Str("Infinity") THEN Infinity
    ELSE NaN

\* Number(value) || 0
NumberOrZero(value) ==
    IF Number(value) = NaN \/ Number(value) = Num(0) THEN Num(0) ELSE Number(value)

\* the comparator both tables pass to sort
SortCompare(aValue, bValue, direction) ==
    IF JsLess(aValue, bValue) THEN (IF direction = "asc" THEN 0 - 1 ELSE 1)
    ELSE IF JsLess(bValue, aValue) THEN (IF direction = "asc" THEN 1 ELSE 0 - 1)
    ELSE 0

\* Array.prototype.sort(compareFn): a stable sort; an element comes before
\* another when it compares smaller, or equal and it stood before it
ArraySort(arr, compareFn(_, _)) ==
    LET sorted(a) ==
            LET before(j, i) == \/ compareFn(a[j], a[i]) < 0
                                \/ compareFn(a[j], a[i]) = 0 /\ j < i
                rank == [i \in 1..Len(a) |->
                            Cardinality({j \in 1..Len(a) : before(j, i)})]
            IN {[k \in 1..Len(a) |-> a[CHOOSE i \in 1..Len(a) : r[i] = k - 1]]
                    : r \in {rank}}
    IN CHOOSE result \in UNION {sorted(a) : a \in {arr}} : TRUE

\* useState({ key: null, direction: 'asc' })
NoSort == [key |-> "null", direction |-> "asc"]

\* the updater of handleSort, the same in both tables
nextSortConfig(prevConfig, key) ==
    [key |-> key,
     direction |-> IF prevConfig.key = key /\ prevConfig.direction = "asc"
                   THEN "desc" ELSE "asc"]

(***************************************************************************)
(* PharmacyStockTable.jsx: days remaining and stock status.                *)
(***************************************************************************)
getDaysRemaining_NoZeroGuard(quantity, avgDaily) ==
    IF avgDaily = 0 THEN Num(0) ELSE Num(FloorDiv(quantity, avgDaily))

getDaysRemaining_Ceil(quantity, avgDaily) ==
    IF avgDaily = 0 THEN Infinity
    ELSE Num(0 - FloorDiv(0 - quantity, avgDaily))

getDaysRemaining(quantity, avgDaily) ==
    IF avgDaily = 0 THEN Infinity ELSE Num(FloorDiv(quantity, avgDaily))

getStockStatus_BandsFirst(quantity, avgDaily) ==
    LET daysRemaining == getDaysRemaining(quantity, avgDaily) IN
    IF NumLeq(daysRemaining, 14) THEN "high"
    ELSE IF quantity <= 50 THEN "shortage"
    ELSE IF NumLeq(daysRemaining, 56) THEN "medium"
    ELSE IF NumGeq(daysRemaining, 57) THEN "low"
    ELSE "good"

getStockStatus_RedBelow14(quantity, avgDaily) ==
    LET daysRemaining == getDaysRemaining(quantity, avgDaily) IN
    IF quantity <= 50 THEN "shortage"
    ELSE IF NumLeq(daysRemaining, 13) THEN "high"
    ELSE IF NumLeq(daysRemaining, 56) THEN "medium"
    ELSE IF NumGeq(daysRemaining, 57) THEN "low"
    ELSE "good"

getStockStatus_MediumTo55(quantity, avgDaily) ==
    LET daysRemaining == getDaysRemaining(quantity, avgDaily) IN
    IF quantity <= 50 THEN "shortage"
    ELSE IF NumLeq(daysRemaining, 14) THEN "high"
    ELSE IF NumLeq(daysRemaining, 55) THEN "medium"
    ELSE IF NumGeq(daysRemaining, 56) THEN "low"
    ELSE "good"

getStockStatus_GoodAbove56(quantity, avgDaily) ==
    LET daysRemaining == getDaysRemaining(quantity, avgDaily) IN
    IF quantity <= 50 THEN "shortage"
    ELSE IF NumLeq(daysRemaining, 14) THEN "high"
    ELSE IF NumLeq(daysRemaining, 56) THEN "medium"
    ELSE "good"

getStockStatus_SwappedBands(quantity, avgDaily) ==
    LET daysRemaining == getDaysRemaining(quantity, avgDaily) IN
    IF quantity <= 50 THEN "shortage"
    ELSE IF NumLeq(daysRemaining, 14) THEN "medium"
    ELSE IF NumLeq(daysRemaining, 56) THEN "high"
    ELSE IF NumGeq(daysRemaining, 57) THEN "low"
    ELSE "good"

\* const getStockStatus = (quantity, avgDaily) => ...
getStockStatus(quantity, avgDaily) ==
    LET daysRemaining == getDaysRemaining(quantity, avgDaily) IN
    IF quantity <= 50 THEN "shortage"
    ELSE IF NumLeq(daysRemaining, 14) THEN "high"
    ELSE IF NumLeq(daysRemaining, 56) THEN "medium"
    ELSE IF NumGeq(daysRemaining, 57) THEN "low"
    ELSE "good"

StockStatuses == {"high", "medium", "low", "shortage", "good"}

\* getStatusColor of the stock table
StockStatusColor_PurpleYellowSwapped(status) ==
    CASE status = "high" -> "#dc2626"
      [] status = "medium" -> "#eab308"
      [] status = "low" -> "#7c3aed"
      [] status = "shortage" -> "#2563eb"
      [] status = "good" -> "#059669"
      [] OTHER -> "#6b7280"

StockStatusColor(status) ==
    CASE status = "high" -> "#dc2626"
      [] status = "medium" -> "#7c3aed"
      [] status = "low" -> "#eab308"
      [] status = "shortage" -> "#2563eb"
      [] status = "good" -> "#059669"
      [] OTHER -> "#6b7280"

\* the five colours of the legend, by name
Red == "#dc2626"
Purple == "#7c3aed"
Yellow == "#eab308"
Blue == "#2563eb"
Green == "#059669"

\* one <tr> of the stock table
StockRow(item) ==
    LET status == getStockStatus(item.quantity, item.avgDailyDispensed)
        daysRemaining == getDaysRemaining(item.quantity, item.avgDailyDispensed)
    IN [name |-> item.name,
        quantity |-> item.quantity,
        avgDailyDispensed |-> item.avgDailyDispensed,
        status |-> status,
        color |-> StockStatusColor(status),
        daysRemaining |-> daysRemaining,
        daysText |-> IF daysRemaining = Infinity THEN "infinite" ELSE "days"]

RenderStock(data) == [i \in 1..Len(data) |-> StockRow(data[i])]

StockFilters == {"all", "low-stock", "critical"}

StockSortKeys == {"name", "quantity", "avgDailyDispensed", "daysRemaining"}

\* matchesFilter of the stock table
StockMatchesFilter(status, filter) ==
    IF filter = "low-stock" THEN status \in {"medium", "high", "shortage"}
    ELSE IF filter = "critical" THEN status \in {"high", "shortage"}
    ELSE TRUE

\* aValue, bValue of the stock table's comparator
StockSortValue(item, key) ==
    CASE key = "daysRemaining" -> getDaysRemaining(item.quantity, item.avgDailyDispensed)
      [] key = "name" -> Str(item.name)
      [] key = "quantity" -> Num(item.quantity)
      [] key = "avgDailyDispensed" -> Num(item.avgDailyDispensed)

\* stockData.filter(...), a new array
StockFiltered(data, term, filter) ==
    SelectSeq(data, LAMBDA item :
        /\ includes(toLowerCase(item.name), toLowerCase(term))
        /\ StockMatchesFilter(getStockStatus(item.quantity, item.avgDailyDispensed), filter))

\* the useMemo of filteredData: the array it returns, and stockData as the
\* computation leaves it (filter copies, sort works on the copy)
StockFilteredData(data, term, filter, sort) ==
    LET filtered == StockFiltered(data, term, filter) IN
    [filteredData |->
        IF sort.key = "null" THEN filtered
        ELSE ArraySort(filtered, LAMBDA a, b :
                SortCompare(StockSortValue(a, sort.key), StockSortValue(b, sort.key),
                            sort.direction)),
     stockData |-> data]

\* the summary cards above the table
StockSummary(data, filteredData) ==
    LET count(status) ==
            Cardinality({i \in 1..Len(data) :
                getStockStatus(data[i].quantity, data[i].avgDailyDispensed) = status})
    IN [totalItems |-> Len(filteredData),
        critical |-> count("high"),
        shortages |-> count("shortage"),
        medium |-> count("medium"),
        low |-> count("low")]

\* the rows loadPharmacyStock returns when the CSV cannot be loaded
FallbackStock ==
    << [name |-> "Acyclovir 400mg Tablet", quantity |-> 680, avgDailyDispensed |-> 34],
       [name |-> "Rocuronium Bromide Injection", quantity |-> 150, avgDailyDispensed |-> 10],
       [name |-> "Cefotaxime Sodium Powder, for Solution", quantity |-> 90, avgDailyDispensed |-> 6],
       [name |-> "Ondansetron 4mg Tablet", quantity |-> 975, avgDailyDispensed |-> 39],
       [name |-> "Duloxetine DR 60mg Capsule", quantity |-> 1560, avgDailyDispensed |-> 52],
       [name |-> "Glipizide XL 5mg Tablet", quantity |-> 990, avgDailyDispensed |-> 33],
       [name |-> "Clonazepam Tablet", quantity |-> 1000, avgDailyDispensed |-> 10],
       [name |-> "Sildenafil 100mg Tablet", quantity |-> 700, avgDailyDispensed |-> 28],
       [name |-> "Paroxetine 20mg Tablet", quantity |-> 1260, avgDailyDispensed |-> 42],
       [name |-> "Quetiapine 100mg Tablet", quantity |-> 1290, avgDailyDispensed |-> 43],
       [name |-> "Bumetanide Injection", quantity |-> 126, avgDailyDispensed |-> 9],
       [name |-> "Meloxicam 15mg Tablet", quantity |-> 2010, avgDailyDispensed |-> 67],
       [name |-> "Promethazine Hydrochloride Injection", quantity |-> 60, avgDailyDispensed |-> 12],
       [name |-> "Fluconazole 150mg Tablet", quantity |-> 420, avgDailyDispensed |-> 21],
       [name |-> "Methylphenidate Film, Extended Release", quantity |-> 25, avgDailyDispensed |-> 5],
       [name |-> "Clopidogrel 75mg Tablet", quantity |-> 2490, avgDailyDispensed |-> 83],
       [name |-> "Azithromycin 250mg Tablet", quantity |-> 66, avgDailyDispensed |-> 11],
       [name |-> "Epinephrine Bitartrate, Lidocaine Hydrochloride Injection", quantity |-> 72, avgDailyDispensed |-> 8],
       [name |-> "Trazodone 100mg Tablet", quantity |-> 1950, avgDailyDispensed |-> 65],
       [name |-> "Alprazolam 0.5mg Tablet", quantity |-> 1050, avgDailyDispensed |-> 35] >>

(***************************************************************************)
(* State.                                                                  *)
(***************************************************************************)
VARIABLES
    mounted,        \* the component this session shows
    \* PharmacyStockTable
    stockData,      \* useState([]): the loaded rows
    stockLoading,   \* useState(true): loading
    stockView,      \* the rendered table rows
    stockCsv,       \* the rows /pharmacy_stock.csv holds
    stockSearchTerm,    \* useState(''): searchTerm
    stockSortConfig,    \* useState({ key: null, direction: 'asc' }): sortConfig
    stockFilterConfig,  \* useState('all'): filterConfig
    stockSummary,   \* the rendered summary cards
    \* Dashboard
    inventoryList,  \* useState([...]): the inventory rows
    alerts,         \* useState([...]): the alert feed, newest first
    isSimulationLoading,        \* useState(false)
    selectedDrugForSimulation,  \* useState('')
    shortageTimer,  \* the drug a pending setTimeout callback was started for
    dashView,       \* the rendered inventory rows
    \* the backend behind POST /inventory/run
    backendInventory,   \* the inventory snapshot and its compliance signals
    \* InventoryScanTable
    scanData,       \* useState(...): the last scan response, or null
    scanLoading,    \* useState(false): loading
    loadingMessage, \* useState('')
    lastScanTime,   \* useState(...): 0 for null, else the time of the scan
    isDataFromCache,    \* useState(false)
    localStorage,   \* rxbridge_scan_data and rxbridge_last_scan_time
    scanFetch,      \* the fetches in flight: scan and the instance that sent it
    scanSeq,        \* scans started so far (the clock of new Date())
    intervals,      \* live setInterval timers: scan, instance and messageIndex
    toast,          \* the last toast shown
    scanView,       \* the rendered rows of the scan table
    wireInfinite,   \* how the backend writes an infinite days_of_supply
    searchTerm,     \* useState('')
    sortConfig,     \* useState({ key: null, direction: 'asc' })
    filterConfig,   \* useState('all')
    currentPage,    \* useState(1)
    instance,       \* the mounted table: 1 for the first, 2 after a remount, ...
    \* App: the router and the auth context
    location,       \* the pathname the router shows
    history,        \* the entries of the history stack, the current one last
    isAuthenticated,    \* useAuth().isAuthenticated
    authLoading,    \* useAuth().loading
    appView,        \* what App has rendered: the navbar and the route element
    \* InventoryScanTable: the AI recommendations modal
    showAIModal,    \* useState(false)
    selectedDrug,   \* useState(null): the row the modal was opened for
    aiRecommendations,  \* useState(null): the recommendations shown
    loadingAI,      \* useState(false)
    aiFetch,        \* the /ai-recommendations requests in flight
    aiSeq,          \* requests sent so far
    clearedAt,      \* history: the scans started when clearScanData last ran
    \* Settings: the password form
    passwordData,   \* useState({ currentPassword: '', newPassword: '', confirmPassword: '' })
    settingsLoading,    \* useState(false): loading
    settingsToast,  \* the last toast of the page
    passwordUpdate, \* the updatePassword call in flight, or NoCall
    updateResult,   \* what the last updatePassword call settled with
    updateCalls,    \* updatePassword calls made so far
    \* Login: the sign-in and sign-up form
    formData,       \* useState({ email: '', password: '', confirmPassword: '' })
    isSignUp,       \* useState(false)
    loginLoading,   \* useState(false): loading
    formErrors,     \* useState({}): the fields that have an error
    loginMessage,   \* useState({ type: '', content: '' }): message.type
    authCall,       \* the signIn or signUp call in flight, or NoCall
    authCalls,      \* signIn and signUp calls made so far
    switchTimers,   \* the setTimeout callbacks pending after a sign up
    isSupabaseConfigured    \* useAuth().isSupabaseConfigured

stockVars == <<stockData, stockLoading, stockView, stockCsv, stockSearchTerm,
               stockSortConfig, stockFilterConfig, stockSummary>>

dashVars == <<inventoryList, alerts, isSimulationLoading,
              selectedDrugForSimulation, shortageTimer, dashView>>

backendVars == <<backendInventory, wireInfinite>>

exploreVars == <<searchTerm, sortConfig, filterConfig, currentPage>>

aiVars == <<showAIModal, selectedDrug, aiRecommendations, loadingAI, aiFetch, aiSeq>>

scanVars == <<backendVars, aiVars, clearedAt, scanData, scanLoading, loadingMessage, lastScanTime,
              isDataFromCache, localStorage, scanFetch, scanSeq, intervals, toast,
              scanView, exploreVars, instance>>

routeVars == <<location, history, isAuthenticated, authLoading, appView>>

settingsVars == <<passwordData, settingsLoading, settingsToast, passwordUpdate,
                  updateResult, updateCalls>>

loginVars == <<formData, isSignUp, loginLoading, formErrors, loginMessage, authCall,
               authCalls, switchTimers, isSupabaseConfigured>>

vars == <<mounted, routeVars, settingsVars, loginVars, stockVars, dashVars, scanVars>>

(***************************************************************************)
(* PharmacyStockTable: loading the stock data.                            *)
(***************************************************************************)
\* a CSV of one row with any numbers of the drawn ranges
CsvOneRow ==
    {<<[name |-> "Drug A", quantity |-> q, avgDailyDispensed |-> a]>>
        : q \in Quantities, a \in Dailies}

\* rows of every band, with names that differ in case
CsvRowPool ==
    { [name |-> "Aspirin 81mg", quantity |-> 30, avgDailyDispensed |-> 5],
      [name |-> "Biotin", quantity |-> 100, avgDailyDispensed |-> 0],
      [name |-> "Zinc 50mg", quantity |-> 450, avgDailyDispensed |-> 32],
      [name |-> "aspirin EC", quantity |-> 600, avgDailyDispensed |-> 10],
      [name |-> "Cetirizine", quantity |-> 100, avgDailyDispensed |-> 5] }

\* a CSV of three different rows of the pool, in any order
CsvThreeRows ==
    {rows \in [1..3 -> CsvRowPool] : Cardinality({rows[i] : i \in 1..3}) = 3}

\* /pharmacy_stock.csv as the server answers: the parsed rows, or no file
CsvFile(rows) == [ok |-> TRUE, rows |-> rows]
CsvUnavailable == [ok |-> FALSE, rows |-> <<>>]

\* what loadPharmacyStock resolves to: the parsed CSV or, when the CSV cannot
\* be loaded, the fallback rows
loadPharmacyStock(csv) == IF csv.ok THEN csv.rows ELSE FallbackStock

InitStockTable ==
    /\ stockData = <<>>
    /\ stockLoading = TRUE
    /\ stockSearchTerm = ""
    /\ stockSortConfig = NoSort
    /\ stockFilterConfig = "all"
    /\ stockView = <<>>
    /\ stockSummary = StockSummary(<<>>, <<>>)

\* useEffect(loadStockData, []): setStockData(data), setLoading(false), re-render
LoadStockData ==
    /\ mounted = "PharmacyStockTable"
    /\ stockLoading = TRUE
    /\ \E memo \in {StockFilteredData(loadPharmacyStock(stockCsv), stockSearchTerm,
                                       stockFilterConfig, stockSortConfig)} :
          /\ stockData' = memo.stockData
          /\ stockView' = RenderStock(memo.filteredData)
          /\ stockSummary' = StockSummary(memo.stockData, memo.filteredData)
    /\ stockLoading' = FALSE
    /\ UNCHANGED <<mounted, settingsVars, loginVars, routeVars, dashVars, scanVars, stockCsv, stockSearchTerm,
                   stockSortConfig, stockFilterConfig>>

NextStock == LoadStockData

\* what the user can type into the search box
StockSearchTerms == {"", "asp", "ASP", "i", "zz"}

\* the re-render after searchTerm, filterConfig or sortConfig changed
RerenderStock(term, filter, sort) ==
    \E memo \in {StockFilteredData(stockData, term, filter, sort)} :
        /\ stockData' = memo.stockData
        /\ stockView' = RenderStock(memo.filteredData)
        /\ stockSummary' = StockSummary(memo.stockData, memo.filteredData)

\* onChange={(e) => setSearchTerm(e.target.value)}
SetSearchTermStock ==
    /\ mounted = "PharmacyStockTable"
    /\ ~stockLoading
    /\ \E term \in StockSearchTerms \ {stockSearchTerm} :
          /\ stockSearchTerm' = term
          /\ RerenderStock(term, stockFilterConfig, stockSortConfig)
    /\ UNCHANGED <<mounted, settingsVars, loginVars, routeVars, dashVars, scanVars, stockLoading, stockCsv,
                   stockSortConfig, stockFilterConfig>>

\* onClick={() => setFilterConfig(filter.key)}
SetFilterConfigStock ==
    /\ mounted = "PharmacyStockTable"
    /\ ~stockLoading
    /\ \E filter \in StockFilters \ {stockFilterConfig} :
          /\ stockFilterConfig' = filter
          /\ RerenderStock(stockSearchTerm, filter, stockSortConfig)
    /\ UNCHANGED <<mounted, settingsVars, loginVars, routeVars, dashVars, scanVars, stockLoading, stockCsv,
                   stockSearchTerm, stockSortConfig>>

\* handleSort(key) of the stock table
HandleSortStock ==
    /\ mounted = "PharmacyStockTable"
    /\ ~stockLoading
    /\ \E key \in StockSortKeys :
          /\ stockSortConfig' = nextSortConfig(stockSortConfig, key)
          /\ RerenderStock(stockSearchTerm, stockFilterConfig, stockSortConfig')
    /\ UNCHANGED <<mounted, settingsVars, loginVars, routeVars, dashVars, scanVars, stockLoading, stockCsv,
                   stockSearchTerm, stockFilterConfig>>

\* the stock table with its search box, filter buttons and column headers
NextStockExplore ==
    LoadStockData \/ SetSearchTermStock \/ SetFilterConfigStock \/ HandleSortStock

(***************************************************************************)
(* Dashboard: the inventory overview and the simulated shortage events.    *)
(* Two versions of the component ship: one with recalled rows and recall   *)
(* styling ("DashboardRecall"), one with the simulation panel              *)
(* ("DashboardSim").                                                       *)
(***************************************************************************)
Undefined == "undefined"

Row(id, name, stock, use, days, hasAlert, severity, isRecalled) ==
    [id |-> id, drug_name |-> name, stock_level |-> stock, avg_daily_use |-> use,
     days_of_supply |-> days, hasAlert |-> hasAlert, alertSeverity |-> severity,
     isRecalled |-> isRecalled]

\* the five rows both versions start with
MockInventory ==
    << Row(1, "Lisinopril 10mg", 120, 15, 8, TRUE, "CRITICAL", FALSE),
       Row(2, "Metformin 500mg", 450, 32, 14, FALSE, Undefined, FALSE),
       Row(3, "Atorvastatin 20mg", 89, 22, 4, TRUE, "AWARENESS", FALSE),
       Row(4, "Amlodipine 5mg", 256, 18, 14, FALSE, Undefined, FALSE),
       Row(5, "Levothyroxine 50mcg", 78, 12, 6, TRUE, "ROUTINE_REORDER", FALSE) >>

\* the three recalled rows of the version with recall styling
MockRecalled ==
    << Row(6, "Losartan 50mg", 240, 28, 8, TRUE, "CRITICAL", TRUE),
       Row(7, "Valsartan 160mg", 156, 22, 7, TRUE, "CRITICAL", TRUE),
       Row(8, "Ranitidine 150mg", 89, 15, 6, TRUE, "CRITICAL", TRUE) >>

Alert(id, name, severity, days) ==
    [id |-> id, drug_name |-> name, severity |-> severity, days_remaining |-> days]

MockAlerts ==
    << Alert(1, "Lisinopril 10mg", "CRITICAL", 0),
       Alert(2, "Atorvastatin 20mg", "AWARENESS", 0),
       Alert(3, "Levothyroxine 50mcg", "ROUTINE_REORDER", 0) >>

MockRecallAlerts ==
    << Alert(4, "Losartan 50mg", "RECALL", 0),
       Alert(5, "Valsartan 160mg", "RECALL", 0),
       Alert(6, "Ranitidine 150mg", "RECALL", 0) >>

RecallStyle == [backgroundColor |-> "#fef1f1", borderLeft |-> "4px solid #dc2626"]
PlainStyle(color) == [backgroundColor |-> color, borderLeft |-> "none"]

SeverityStyle(item) ==
    IF ~item.hasAlert THEN PlainStyle("#ffffff")
    ELSE CASE item.alertSeverity = "CRITICAL" -> PlainStyle("#fef2f2")
           [] item.alertSeverity = "AWARENESS" -> PlainStyle("#fffbeb")
           [] item.alertSeverity = "ROUTINE_REORDER" -> PlainStyle("#eff6ff")
           [] OTHER -> PlainStyle("#ffffff")

getRowStyle_SeverityFirst(item) ==
    IF item.hasAlert /\ item.alertSeverity = "CRITICAL" THEN PlainStyle("#fef2f2")
    ELSE IF item.isRecalled THEN RecallStyle
    ELSE SeverityStyle(item)

\* const getRowStyle = (item) => ...: recalled rows first, then by severity
getRowStyle(item) ==
    IF item.isRecalled THEN RecallStyle ELSE SeverityStyle(item)

\* const getStockLevelColor = (daysOfSupply) => ...
getStockLevelColor(daysOfSupply) ==
    IF daysOfSupply <= 5 THEN "#dc2626"
    ELSE IF daysOfSupply <= 10 THEN "#d97706"
    ELSE "#111827"

\* one <tr> of the inventory overview
DashRow(item) ==
    [drug_name |-> item.drug_name,
     style |-> getRowStyle(item),
     recallBadge |-> item.isRecalled,
     alertText |-> IF item.hasAlert THEN item.alertSeverity ELSE "",
     stock_level |-> item.stock_level,
     avg_daily_use |-> item.avg_daily_use,
     days_of_supply |-> item.days_of_supply,
     stockColor |-> getStockLevelColor(item.days_of_supply)]

RenderDash(list) == [i \in 1..Len(list) |-> DashRow(list[i])]

DrugNames(list) == {list[i].drug_name : i \in 1..Len(list)}

InitDashboardUnmounted ==
    /\ inventoryList = <<>>
    /\ alerts = <<>>
    /\ isSimulationLoading = FALSE
    /\ selectedDrugForSimulation = ""
    /\ shortageTimer = ""
    /\ dashView = <<>>

InitDashboardSim ==
    /\ inventoryList = MockInventory
    /\ alerts = MockAlerts
    /\ isSimulationLoading = FALSE
    /\ selectedDrugForSimulation = ""
    /\ shortageTimer = ""
    /\ dashView = RenderDash(MockInventory)

InitDashboardRecall ==
    /\ inventoryList = MockInventory \o MockRecalled
    /\ alerts = MockAlerts \o MockRecallAlerts
    /\ isSimulationLoading = FALSE
    /\ selectedDrugForSimulation = ""
    /\ shortageTimer = ""
    /\ dashView = RenderDash(MockInventory \o MockRecalled)

\* <select onChange={(e) => setSelectedDrugForSimulation(e.target.value)}
\*         disabled={isSimulationLoading}>
SelectDrugForSimulation ==
    /\ mounted = "DashboardSim"
    /\ ~isSimulationLoading
    /\ \E d \in DrugNames(inventoryList) \cup {""} :
          /\ d # selectedDrugForSimulation
          /\ selectedDrugForSimulation' = d
    /\ UNCHANGED <<mounted, settingsVars, loginVars, routeVars, stockVars, scanVars, inventoryList, alerts,
                   isSimulationLoading, shortageTimer, dashView>>

\* handleTriggerShortage(selectedDrugForSimulation), up to the setTimeout; the
\* button is disabled without a selection and while a simulation is loading
TriggerShortage ==
    /\ mounted = "DashboardSim"
    /\ selectedDrugForSimulation # ""
    /\ ~isSimulationLoading
    /\ Len(alerts) < Len(MockAlerts) + MaxEvents
    /\ isSimulationLoading' = TRUE
    /\ shortageTimer' = selectedDrugForSimulation
    /\ UNCHANGED <<mounted, settingsVars, loginVars, routeVars, stockVars, scanVars, inventoryList, alerts,
                   selectedDrugForSimulation, dashView>>

\* Math.floor(item.stock_level * 0.3)
ThirtyPercent(stock) == FloorDiv(stock * 3, 10)

shortageRow_KeepDays(item, severity) ==
    [item EXCEPT !.stock_level = MathMax(10, ThirtyPercent(item.stock_level)),
                 !.hasAlert = TRUE,
                 !.alertSeverity = severity]

shortageRow_DaysFromOldStock(item, severity) ==
    [item EXCEPT !.stock_level = MathMax(10, ThirtyPercent(item.stock_level)),
                 !.days_of_supply = FloorDiv(item.stock_level, item.avg_daily_use),
                 !.hasAlert = TRUE,
                 !.alertSeverity = severity]

\* the row with the stock reduced to 30% and no minimum
shortageRow_NoFloor(item, severity) ==
    LET newStockLevel == ThirtyPercent(item.stock_level)
        newDaysOfSupply == FloorDiv(newStockLevel, item.avg_daily_use)
    IN [item EXCEPT !.stock_level = newStockLevel,
                    !.days_of_supply = newDaysOfSupply,
                    !.hasAlert = TRUE,
                    !.alertSeverity = severity]

\* the row handleTriggerShortage writes for the selected drug
shortageRow(item, severity) ==
    LET newStockLevel == MathMax(10, ThirtyPercent(item.stock_level))
        newDaysOfSupply == FloorDiv(newStockLevel, item.avg_daily_use)
    IN [item EXCEPT !.stock_level = newStockLevel,
                    !.days_of_supply = newDaysOfSupply,
                    !.hasAlert = TRUE,
                    !.alertSeverity = severity]

\* the setTimeout callback of handleTriggerShortage
ShortageTimerFires ==
    /\ mounted = "DashboardSim"
    /\ shortageTimer # ""
    /\ \E severity \in {"CRITICAL", "AWARENESS"}, days \in 1..5 :
          /\ alerts' = <<Alert(Len(alerts) + 1, shortageTimer, severity, days)>> \o alerts
          /\ inventoryList' =
                [i \in 1..Len(inventoryList) |->
                    IF inventoryList[i].drug_name = shortageTimer
                    THEN shortageRow(inventoryList[i], severity)
                    ELSE inventoryList[i]]
    /\ isSimulationLoading' = FALSE
    /\ selectedDrugForSimulation' = ""
    /\ shortageTimer' = ""
    /\ dashView' = RenderDash(inventoryList')
    /\ UNCHANGED <<mounted, settingsVars, loginVars, routeVars, stockVars, scanVars>>

NextDashboard == SelectDrugForSimulation \/ TriggerShortage \/ ShortageTimerFires

(***************************************************************************)
(* The backend behind POST /inventory/run: the classification engine and   *)
(* the summary, as sections 4.1, 4.2 and 6 of the specification give them. *)
(***************************************************************************)
Signals == {"NONE", "RECALL", "DISCONTINUED"}

AlertLevels == {"RED", "PURPLE", "YELLOW", "BLUE", "NONE"}

\* current_stock >= 0 and average_daily_dispense >= 0
ValidInventoryData(item) ==
    item.current_stock >= 0 /\ item.average_daily_dispense >= 0

days_of_supply(item) ==
    IF item.average_daily_dispense = 0 THEN Infinity
    ELSE Num(FloorDiv(item.current_stock, item.average_daily_dispense))

\* the priority-ordered rules 1 to 3; the first matching rule wins
alert_level(item) ==
    IF item.signal = "RECALL" THEN "PURPLE"
    ELSE IF item.signal = "DISCONTINUED" THEN "YELLOW"
    ELSE IF item.current_stock <= 50 THEN "BLUE"
    ELSE IF NumLeq(days_of_supply(item), 14) THEN "RED"
    ELSE IF NumLeq(days_of_supply(item), 56) THEN "PURPLE"
    ELSE "NONE"

\* rule 4
requires_immediate_action(level) == level \in {"RED", "PURPLE"}

classify(item) ==
    [id |-> item.id,
     drug_name |-> item.drug_name,
     current_stock |-> item.current_stock,
     average_daily_dispense |-> item.average_daily_dispense,
     signal |-> item.signal,
     days_of_supply |-> days_of_supply(item),
     alert_level |-> alert_level(item),
     requires_immediate_action |-> requires_immediate_action(alert_level(item))]

CountLevel(items, level) ==
    Cardinality({i \in 1..Len(items) : items[i].alert_level = level})

summarize(items) ==
    [total_items_checked |-> Len(items),
     items_requiring_attention |-> Len(items) - CountLevel(items, "NONE"),
     alert_breakdown |-> [l \in AlertLevels |-> CountLevel(items, l)]]

\* the success response: items with a valid stock and dispense rate are
\* classified, RED and PURPLE go to recalls, YELLOW and BLUE to other_alerts
ScanResponse(inventory) ==
    LET valid == SelectSeq(inventory, LAMBDA it : ValidInventoryData(it))
        items == [i \in 1..Len(valid) |-> classify(valid[i])]
    IN [status |-> "success",
        summary |-> summarize(items),
        recalls |-> SelectSeq(items, LAMBDA c : c.alert_level \in {"RED", "PURPLE"}),
        other_alerts |-> SelectSeq(items, LAMBDA c : c.alert_level \in {"YELLOW", "BLUE"}),
        item_errors |-> [i \in 1..Len(SelectSeq(inventory, LAMBDA it : ~ValidInventoryData(it)))
                           |-> "InvalidInventoryData"]]

\* what the JSON body can carry for an infinite days_of_supply: JSON has no
\* Infinity, so null, or a string naming the sentinel
WireSentinels == {JsNull, Str("infinite"), Str("Infinity")}

\* the response as JSON carries it
WireItem(item, sentinel) ==
    [item EXCEPT !.days_of_supply = IF item.days_of_supply = Infinity THEN sentinel
                                    ELSE item.days_of_supply]

WireResponse(response, sentinel) ==
    [response EXCEPT
        !.recalls = [i \in 1..Len(response.recalls) |-> WireItem(response.recalls[i], sentinel)],
        !.other_alerts = [i \in 1..Len(response.other_alerts) |->
                              WireItem(response.other_alerts[i], sentinel)]]

\* the sentinel shows only where an item has no usage
SentinelsFor(inventory) ==
    IF \E i \in 1..Len(inventory) : inventory[i].average_daily_dispense = 0
    THEN WireSentinels ELSE {JsNull}

InventoryItem(id, stock, dispense, signal) ==
    [id |-> id, drug_name |-> "Drug A", current_stock |-> stock,
     average_daily_dispense |-> dispense, signal |-> signal]

\* an inventory of one item with any numbers of the drawn ranges
OneItemInventories ==
    {<<InventoryItem(1, q, a, sg)>> :
        q \in (0 - NegSpan)..MaxStock, a \in (0 - NegSpan)..MaxDispense, sg \in Signals}

\* an inventory of two items on either side of the floor and of the red band
TwoItemInventories ==
    LET pool == {InventoryItem(1, q, a, sg) : q \in {30, 55, 60}, a \in {0, 4}, sg \in Signals}
    IN {<<x, [y EXCEPT !.id = 2, !.drug_name = "Drug B"]>> : x \in pool, y \in pool}

NamedItem(id, name, stock, dispense, signal) ==
    [InventoryItem(id, stock, dispense, signal) EXCEPT !.drug_name = name]

\* items of every alert level, two of them with no usage, two with the same
\* stock, and names that differ in case
ExplorePool ==
    { NamedItem(1, "Drug A", 30, 0, "NONE"),
      NamedItem(2, "Drug B", 30, 4, "NONE"),
      NamedItem(3, "drug c", 55, 4, "NONE"),
      NamedItem(4, "Drug D", 60, 0, "RECALL"),
      NamedItem(5, "Drug E", 100, 4, "DISCONTINUED") }

\* an inventory of three different items of the pool, in any order
ExploreInventories ==
    {inv \in [1..3 -> ExplorePool] : Cardinality({inv[i] : i \in 1..3}) = 3}

\* an inventory of 26 items below the floor: two pages of the scan table
BigInventory ==
    [i \in 1..26 |->
        NamedItem(i, "Drug " \o CharAt(Uppers, i), 20 + (i % 5), 1 + (i % 3), "NONE")]

\* the inventories of a scanning session: one with an item of no usage, one
\* without
SessionInventories ==
    { << NamedItem(1, "Drug A", 30, 0, "NONE"), NamedItem(2, "Drug B", 55, 4, "NONE") >>,
      << NamedItem(2, "Drug B", 55, 4, "NONE") >> }

(***************************************************************************)
(* InventoryScanTable.jsx.                                                 *)
(***************************************************************************)
EmptySummary ==
    [total_items_checked |-> 0, items_requiring_attention |-> 0,
     alert_breakdown |-> [l \in AlertLevels |-> 0]]

\* scanData = null
NullScan ==
    [status |-> "null", summary |-> EmptySummary, recalls |-> <<>>,
     other_alerts |-> <<>>, item_errors |-> <<>>]

\* getStatusColor of the scan table
ScanStatusColor(alertLevel) ==
    CASE alertLevel = "RED" -> "#dc2626"
      [] alertLevel = "PURPLE" -> "#7c3aed"
      [] alertLevel = "YELLOW" -> "#eab308"
      [] alertLevel = "BLUE" -> "#2563eb"
      [] OTHER -> "#059669"

getStatusLabel_YellowBlueSwapped(alertLevel) ==
    CASE alertLevel = "RED" -> "Critical"
      [] alertLevel = "PURPLE" -> "Recalled"
      [] alertLevel = "YELLOW" -> "Low Stock"
      [] alertLevel = "BLUE" -> "Discontinued"
      [] OTHER -> "Normal"

\* const getStatusLabel = (alertLevel) => ...
getStatusLabel(alertLevel) ==
    CASE alertLevel = "RED" -> "Critical"
      [] alertLevel = "PURPLE" -> "Recalled"
      [] alertLevel = "YELLOW" -> "Discontinued"
      [] alertLevel = "BLUE" -> "Low Stock"
      [] OTHER -> "Normal"

showsImmediateAction_UnlessBlue(item) == item.alert_level # "BLUE"

\* {item.requires_immediate_action && <span>Immediate Action Required</span>}
showsImmediateAction(item) == item.requires_immediate_action

\* one <tr> of the scan table
ScanRow(item) ==
    [id |-> item.id,
     drug_name |-> item.drug_name,
     alert_level |-> item.alert_level,
     label |-> getStatusLabel(item.alert_level),
     color |-> ScanStatusColor(item.alert_level),
     immediateAction |-> showsImmediateAction(item),
     current_stock |-> item.current_stock,
     average_daily_dispense |-> item.average_daily_dispense,
     days_of_supply |-> item.days_of_supply,
     aiButton |-> item.alert_level # "BLUE"]

\* [...(scanData.recalls || []), ...(scanData.other_alerts || [])]
allItems(data) == IF data = NullScan THEN <<>> ELSE data.recalls \o data.other_alerts

ScanFilters == {"all", "red", "purple", "yellow", "blue"}

ScanSortKeys == {"drug_name", "current_stock", "average_daily_dispense", "days_of_supply"}

\* matchesFilter of the scan table
ScanMatchesFilter_BothSidesUpper(item, filter) ==
    filter = "all" \/ toUpperCase(item.alert_level) = toUpperCase(filter)

ScanMatchesFilter(item, filter) ==
    filter = "all" \/ item.alert_level = toUpperCase(filter)

\* aValue, bValue of the scan table's comparator
ScanSortValue(item, key) ==
    CASE key = "drug_name" -> Str(item.drug_name)
      [] key = "current_stock" -> NumberOrZero(Num(item.current_stock))
      [] key = "average_daily_dispense" -> NumberOrZero(Num(item.average_daily_dispense))
      [] key = "days_of_supply" -> NumberOrZero(item.days_of_supply)

\* allItems.filter(...), a new array
ScanFiltered(data, term, filter) ==
    SelectSeq(allItems(data), LAMBDA item :
        /\ includes(toLowerCase(item.drug_name), toLowerCase(term))
        /\ ScanMatchesFilter(item, filter))

\* filtered.sort(...) of the scan table
ScanSorted_Unstable(filtered, sort) ==
    LET n == Len(filtered)
        reversed == [i \in 1..n |-> filtered[n + 1 - i]]
    IN ArraySort(reversed, LAMBDA a, b :
            SortCompare(ScanSortValue(a, sort.key), ScanSortValue(b, sort.key),
                        sort.direction))

ScanSorted(filtered, sort) ==
    ArraySort(filtered, LAMBDA a, b :
        SortCompare(ScanSortValue(a, sort.key), ScanSortValue(b, sort.key),
                    sort.direction))

\* the useMemo of filteredData: the array it returns, and scanData as the
\* computation leaves it (the spread and filter copy, sort works on the copy)
ScanFilteredData_SortInPlace(data, term, filter, sort) ==
    [filteredData |->
        IF sort.key = "null" THEN ScanFiltered(data, term, filter)
        ELSE ScanSorted(ScanFiltered(data, term, filter), sort),
     scanData |->
        IF sort.key = "null" \/ data = NullScan THEN data
        ELSE [data EXCEPT !.recalls = ScanSorted(data.recalls, sort),
                          !.other_alerts = ScanSorted(data.other_alerts, sort)]]

ScanFilteredData(data, term, filter, sort) ==
    [filteredData |->
        IF sort.key = "null" THEN ScanFiltered(data, term, filter)
        ELSE ScanSorted(ScanFiltered(data, term, filter), sort),
     scanData |-> data]

\* useState(25)
itemsPerPage == 25

\* Math.ceil(filteredData.length / itemsPerPage)
totalPages(filteredData) == (Len(filteredData) + itemsPerPage - 1) \div itemsPerPage

\* filteredData.slice(startIndex, endIndex)
paginatedData(filteredData, page) ==
    LET startIndex == (page - 1) * itemsPerPage
        endIndex == startIndex + itemsPerPage
        last == IF endIndex <= Len(filteredData) THEN endIndex ELSE Len(filteredData)
    IN IF startIndex >= Len(filteredData) THEN <<>>
       ELSE SubSeq(filteredData, startIndex + 1, last)

\* the <tr> rows of a page
RenderScan(items) == [i \in 1..Len(items) |-> ScanRow(items[i])]

progressMessages ==
    << "Fetching inventory data...",
       "Retrieving FDA shortage information...",
       "Checking recent drug recalls...",
       "Analyzing critical alerts...",
       "Processing compliance data...",
       "Finalizing results..." >>

EmptyStorage == [scan_data |-> NullScan, last_scan_time |-> 0]

\* JSON.parse(JSON.stringify(data)): Infinity is written as null
JSONRoundTrip(data) == WireResponse(data, JsNull)

\* the state of a freshly mounted table: the useState initialisers, read from
\* localStorage, and the mount effect
MountScanTable(storage) ==
    /\ scanData' = JSONRoundTrip(storage.scan_data)
    /\ lastScanTime' = storage.last_scan_time
    /\ isDataFromCache' = (scanData' # NullScan /\ lastScanTime' # 0)
    /\ scanLoading' = FALSE
    /\ loadingMessage' = ""
    /\ searchTerm' = ""
    /\ sortConfig' = NoSort
    /\ filterConfig' = "all"
    /\ currentPage' = 1
    /\ showAIModal' = FALSE
    /\ selectedDrug' = JsNull
    /\ aiRecommendations' = JsNull
    /\ loadingAI' = FALSE

InitScanTable ==
    /\ scanData = JSONRoundTrip(localStorage.scan_data)
    /\ lastScanTime = localStorage.last_scan_time
    /\ isDataFromCache = (scanData # NullScan /\ lastScanTime # 0)
    /\ scanLoading = FALSE
    /\ loadingMessage = ""
    /\ searchTerm = ""
    /\ sortConfig = NoSort
    /\ filterConfig = "all"
    /\ currentPage = 1
    /\ showAIModal = FALSE
    /\ selectedDrug = JsNull
    /\ aiRecommendations = JsNull
    /\ loadingAI = FALSE
    /\ aiFetch = {}
    /\ aiSeq = 0
    /\ clearedAt = 0
    /\ instance = 1
    /\ scanFetch = {}
    \* scans are numbered by their time: later than the cached one
    /\ scanSeq = localStorage.last_scan_time
    /\ intervals = {}
    /\ toast = ""
    /\ scanView = RenderScan(paginatedData(
                      ScanFilteredData(scanData, "", "all", NoSort).filteredData, 1))

\* the two persisting effects, run after scanData or lastScanTime changed
Persisted(storage, data, time) ==
    [scan_data |-> IF data # NullScan THEN JSONRoundTrip(data) ELSE storage.scan_data,
     last_scan_time |-> IF time # 0 THEN time ELSE storage.last_scan_time]

\* the re-render: filteredData, paginatedData and the rows
RerenderScan(data, term, filter, sort, page) ==
    \E memo \in {ScanFilteredData(data, term, filter, sort)} :
        /\ scanData' = memo.scanData
        /\ scanView' = RenderScan(paginatedData(memo.filteredData, page))

\* performInventoryScan up to the await of fetch; the button is disabled
\* while loading
PerformInventoryScan ==
    /\ mounted = "InventoryScanTable"
    /\ ~scanLoading
    /\ scanSeq < MaxScans
    /\ scanSeq' = scanSeq + 1
    /\ scanLoading' = TRUE
    /\ loadingMessage' = "Initializing compliance scan..."
    /\ intervals' = intervals \cup
                      {[scan |-> scanSeq', instance |-> instance, messageIndex |-> 0]}
    /\ scanFetch' = scanFetch \cup {[scan |-> scanSeq', instance |-> instance]}
    /\ UNCHANGED <<mounted, settingsVars, loginVars, routeVars, stockVars, dashVars, backendVars, clearedAt, aiVars, scanData,
                   lastScanTime, isDataFromCache, localStorage, toast, scanView,
                   exploreVars, instance>>

\* the setInterval callback; setLoadingMessage of an unmounted table does
\* nothing
ProgressTick ==
    /\ mounted = "InventoryScanTable"
    /\ \E iv \in intervals :
          /\ iv.messageIndex < Len(progressMessages)
          /\ loadingMessage' = IF iv.instance = instance
                               THEN progressMessages[iv.messageIndex + 1]
                               ELSE loadingMessage
          /\ intervals' = (intervals \ {iv})
                            \cup {[iv EXCEPT !.messageIndex = iv.messageIndex + 1]}
    /\ UNCHANGED <<mounted, settingsVars, loginVars, routeVars, stockVars, dashVars, backendVars, clearedAt, aiVars, scanData,
                   scanLoading, lastScanTime, isDataFromCache, localStorage,
                   scanFetch, scanSeq, toast, scanView, exploreVars, instance>>

\* "no-summary" is a body with status 'success' and no summary: the state is
\* set, then reading data.summary.items_requiring_attention for the toast
\* throws into the catch block
FetchOutcomes ==
    {"success", "no-summary", "status-error", "http-error", "bad-json", "rejected"}

\* data.summary of a body that has none
MissingSummary == [undefined |-> TRUE]

\* the outcomes on which setScanData, setLastScanTime and setIsDataFromCache run
SetsScanData(outcome) == outcome \in {"success", "no-summary"}

\* the requests in flight once fetch f has settled: the catch block and
\* finally send nothing
requestsAfterSettle_Retry(fetches, f, outcome) ==
    IF outcome = "success" THEN fetches \ {f}
    ELSE (fetches \ {f}) \cup {[f EXCEPT !.scan = f.scan + MaxScans]}

requestsAfterSettle(fetches, f, outcome) == fetches \ {f}

\* the toast a settled fetch shows
toastOf(outcome) ==
    CASE outcome = "success" -> "Scan completed"
      [] outcome = "status-error" -> "Scan failed"
      [] OTHER -> "Failed to perform inventory scan"

ErrorToasts == {"Scan failed", "Failed to perform inventory scan"}

\* scanData after a fetch of the mounted table has settled
scanDataAfterSettle_NullOnFailure(data, outcome, body) ==
    IF outcome = "success" THEN body ELSE NullScan

scanDataAfterSettle(data, outcome, body) ==
    CASE outcome = "success" -> body
      [] outcome = "no-summary" -> [body EXCEPT !.summary = MissingSummary]
      [] OTHER -> data

\* loading after a fetch has settled: finally runs setLoading(false) whatever
\* the try and catch blocks did
loadingAfterSettle_OnlyOnSuccess(loading, outcome) ==
    IF outcome = "success" THEN FALSE ELSE loading

loadingAfterSettle(loading, outcome) == FALSE

\* performInventoryScan from the settling of fetch to the end of finally;
\* the state setters of a table that has been unmounted do nothing and its
\* effects do not run
FetchSettles ==
    /\ mounted = "InventoryScanTable"
    /\ \E f \in scanFetch, outcome \in FetchOutcomes :
          \* clearInterval runs only once fetch has resolved
          /\ intervals' = IF outcome = "rejected" THEN intervals
                          ELSE {iv \in intervals : iv.scan # f.scan}
          /\ toast' = toastOf(outcome)
          /\ scanFetch' = requestsAfterSettle(scanFetch, f, outcome)
          /\ IF f.instance = instance
             THEN /\ RerenderScan(
                        scanDataAfterSettle(scanData, outcome,
                            WireResponse(ScanResponse(backendInventory), wireInfinite)),
                        searchTerm, filterConfig, sortConfig, currentPage)
                  /\ lastScanTime' = IF SetsScanData(outcome) THEN f.scan ELSE lastScanTime
                  /\ isDataFromCache' = IF SetsScanData(outcome) THEN FALSE
                                        ELSE isDataFromCache
                  /\ scanLoading' = loadingAfterSettle(scanLoading, outcome)
                  /\ loadingMessage' = ""
                  /\ localStorage' = Persisted(localStorage, scanData', lastScanTime')
             ELSE UNCHANGED <<scanData, lastScanTime, isDataFromCache, scanLoading,
                              loadingMessage, localStorage, scanView>>
    /\ UNCHANGED <<mounted, settingsVars, loginVars, routeVars, stockVars, dashVars, backendVars, clearedAt, aiVars, scanSeq,
                   exploreVars, instance>>

\* clearScanData; the button is rendered only while scanData is set
ClearScanData ==
    /\ mounted = "InventoryScanTable"
    /\ scanData # NullScan
    /\ localStorage' = EmptyStorage
    /\ RerenderScan(NullScan, searchTerm, filterConfig, sortConfig, currentPage)
    /\ lastScanTime' = 0
    /\ isDataFromCache' = FALSE
    /\ toast' = "Scan data cleared"
    /\ clearedAt' = scanSeq
    /\ UNCHANGED <<mounted, settingsVars, loginVars, routeVars, stockVars, dashVars, backendVars, aiVars, scanLoading,
                   loadingMessage, scanFetch, scanSeq, intervals, exploreVars,
                   instance>>

NextScan == PerformInventoryScan \/ ProgressTick \/ FetchSettles \/ ClearScanData

\* what the user can type into the search box of the scan table
ScanSearchTerms == {"", "drug", "B", "zz"}

\* the search box and the filter buttons are rendered while scanData is set
ControlsShown == mounted = "InventoryScanTable" /\ scanData # NullScan

\* the column headers are rendered while the page has rows
HeadersShown == ControlsShown /\ Len(scanView) > 0

\* onChange={(e) => setSearchTerm(e.target.value)}, and the effect that
\* resets the page
SetSearchTerm ==
    /\ ControlsShown
    /\ \E term \in ScanSearchTerms \ {searchTerm} :
          /\ searchTerm' = term
          /\ currentPage' = 1
          /\ RerenderScan(scanData, term, filterConfig, sortConfig, 1)
    /\ UNCHANGED <<mounted, settingsVars, loginVars, routeVars, stockVars, dashVars, backendVars, clearedAt, aiVars, scanLoading,
                   loadingMessage, lastScanTime, isDataFromCache, localStorage,
                   scanFetch, scanSeq, intervals, toast, sortConfig, filterConfig,
                   instance>>

\* onClick={() => setFilterConfig(filter.key)}, and the effect that resets the
\* page
SetFilterConfig ==
    /\ ControlsShown
    /\ \E filter \in ScanFilters \ {filterConfig} :
          /\ filterConfig' = filter
          /\ currentPage' = 1
          /\ RerenderScan(scanData, searchTerm, filter, sortConfig, 1)
    /\ UNCHANGED <<mounted, settingsVars, loginVars, routeVars, stockVars, dashVars, backendVars, clearedAt, aiVars, scanLoading,
                   loadingMessage, lastScanTime, isDataFromCache, localStorage,
                   scanFetch, scanSeq, intervals, toast, searchTerm, sortConfig,
                   instance>>

\* handleSort(key) of the scan table
HandleSort ==
    /\ HeadersShown
    /\ \E key \in ScanSortKeys :
          /\ sortConfig' = nextSortConfig(sortConfig, key)
          /\ RerenderScan(scanData, searchTerm, filterConfig, sortConfig', currentPage)
    /\ UNCHANGED <<mounted, settingsVars, loginVars, routeVars, stockVars, dashVars, backendVars, clearedAt, aiVars, scanLoading,
                   loadingMessage, lastScanTime, isDataFromCache, localStorage,
                   scanFetch, scanSeq, intervals, toast, searchTerm, filterConfig,
                   currentPage, instance>>

\* the pagination buttons: previous, a page number, next; rendered below the
\* rows while there is more than one page
SetCurrentPage ==
    /\ HeadersShown
    /\ \E filteredData \in {ScanFilteredData(scanData, searchTerm, filterConfig,
                                             sortConfig).filteredData} :
          /\ Len(filteredData) > itemsPerPage
          /\ \E page \in 1..totalPages(filteredData) :
                /\ page # currentPage
                /\ currentPage' = page
                /\ RerenderScan(scanData, searchTerm, filterConfig, sortConfig, page)
    /\ UNCHANGED <<mounted, settingsVars, loginVars, routeVars, stockVars, dashVars, backendVars, clearedAt, aiVars, scanLoading,
                   loadingMessage, lastScanTime, isDataFromCache, localStorage,
                   scanFetch, scanSeq, intervals, toast, searchTerm, sortConfig,
                   filterConfig, instance>>

\* navigating to the other page that hosts the table: the mounted table is
\* unmounted and a new one mounts; fetches and intervals of the old one go on
Remount ==
    /\ mounted = "InventoryScanTable"
    /\ instance < MaxMounts
    /\ instance' = instance + 1
    /\ MountScanTable(localStorage)
    /\ scanView' = RenderScan(paginatedData(
                      ScanFilteredData(scanData', "", "all", NoSort).filteredData, 1))
    /\ UNCHANGED <<mounted, settingsVars, loginVars, routeVars, stockVars, dashVars, backendVars, clearedAt, aiFetch, aiSeq, localStorage,
                   scanFetch, scanSeq, intervals, toast>>

NextScanExplore == SetSearchTerm \/ SetFilterConfig \/ HandleSort \/ SetCurrentPage

\* fetchAIRecommendations(item) up to the await of fetch; the button is on
\* the rows whose alert level is not BLUE, under the modal's overlay while the
\* modal is shown
FetchAIRecommendations ==
    /\ mounted = "InventoryScanTable"
    /\ ~showAIModal
    /\ aiSeq < MaxRequests
    /\ \E i \in 1..Len(scanView) :
          /\ scanView[i].aiButton
          /\ selectedDrug' = [drug_name |-> scanView[i].drug_name,
                              alert_level |-> scanView[i].alert_level]
          /\ aiFetch' = aiFetch \cup {[request |-> aiSeq + 1,
                                       drug_name |-> scanView[i].drug_name,
                                       instance |-> instance]}
    /\ aiSeq' = aiSeq + 1
    /\ loadingAI' = TRUE
    /\ showAIModal' = TRUE
    /\ UNCHANGED <<mounted, settingsVars, loginVars, routeVars, stockVars, dashVars, backendVars, clearedAt,
                   aiRecommendations, scanData, scanLoading, loadingMessage,
                   lastScanTime, isDataFromCache, localStorage, scanFetch, scanSeq,
                   intervals, toast, scanView, exploreVars, instance>>

AIOutcomes == {"ok", "http-error", "rejected"}

\* what setAiRecommendations receives: the body of the response to the request
\* for a drug, or the fallback object of the catch block
aiRecommendationsOf(f, outcome) ==
    [drug_name |-> f.drug_name,
     d1 |-> IF outcome = "ok" THEN "recommendations"
            ELSE "Unable to load AI recommendations. Please try again."]

\* fetchAIRecommendations from the settling of fetch to the end of finally;
\* the state setters of an unmounted table do nothing
AIResponseSettles ==
    /\ mounted = "InventoryScanTable"
    /\ \E f \in aiFetch, outcome \in AIOutcomes :
          /\ aiFetch' = aiFetch \ {f}
          /\ toast' = IF outcome = "ok" THEN toast
                      ELSE "Failed to get AI recommendations"
          /\ IF f.instance = instance
             THEN /\ aiRecommendations' = aiRecommendationsOf(f, outcome)
                  /\ loadingAI' = FALSE
             ELSE UNCHANGED <<aiRecommendations, loadingAI>>
    /\ UNCHANGED <<mounted, settingsVars, loginVars, routeVars, stockVars, dashVars, backendVars, clearedAt,
                   showAIModal, selectedDrug, aiSeq, scanData, scanLoading,
                   loadingMessage, lastScanTime, isDataFromCache, localStorage,
                   scanFetch, scanSeq, intervals, scanView, exploreVars, instance>>

\* the modal's close buttons: setShowAIModal(false)
CloseAIModal ==
    /\ mounted = "InventoryScanTable"
    /\ showAIModal
    /\ showAIModal' = FALSE
    /\ UNCHANGED <<mounted, settingsVars, loginVars, routeVars, stockVars, dashVars, backendVars, clearedAt,
                   selectedDrug, aiRecommendations, loadingAI, aiFetch, aiSeq,
                   scanData, scanLoading, loadingMessage, lastScanTime,
                   isDataFromCache, localStorage, scanFetch, scanSeq, intervals,
                   toast, scanView, exploreVars, instance>>

NextAIModal == FetchAIRecommendations \/ AIResponseSettles \/ CloseAIModal

InitScanUnmounted ==
    /\ backendInventory = <<>>
    /\ wireInfinite = JsNull
    /\ localStorage = EmptyStorage
    /\ InitScanTable

(***************************************************************************)
(* App: the routes, the layout, the guards of the pages and the router.    *)
(***************************************************************************)
\* the routed paths, and one that no route matches
Paths == {"/", "/login", "/dashboard", "/settings", "/compliance", "/reports"}

ProtectedPaths == {"/dashboard", "/settings", "/compliance"}

\* <Navigate to={to} />: renders nothing and navigates in an effect
Navigate(to) == [navigate |-> to]

\* the content a page renders
Element(name) == [content |-> name]

Login(auth, loading) ==
    IF auth THEN Navigate("/dashboard")
    ELSE IF loading THEN Element("Loading...")
    ELSE Element("Login")

Dashboard(auth) ==
    IF ~auth THEN Navigate("/login") ELSE Element("Dashboard")

Settings_NoGuard(auth) == Element("Settings")

Settings(auth) ==
    IF ~auth THEN Navigate("/login") ELSE Element("Settings")

ComplianceCenter(auth) ==
    IF ~auth THEN Navigate("/login") ELSE Element("ComplianceCenter")

\* <Routes>: the element of the route that matches the path, or nothing
Routes(path, auth, loading) ==
    CASE path = "/login" -> Login(auth, loading)
      [] path = "/dashboard" -> Dashboard(auth)
      [] path = "/settings" -> Settings(auth)
      [] path = "/compliance" -> ComplianceCenter(auth)
      [] path = "/" -> Navigate("/login")
      [] OTHER -> Element("")

\* {isAuthenticated && <Navbar />} {children}
Layout(auth, children) == [navbar |-> auth, children |-> children]

App(path, auth, loading) == Layout(auth, Routes(path, auth, loading))

\* history.push, on a stack that keeps its last MaxHistory entries
push(entries, path) ==
    IF Len(entries) < MaxHistory THEN Append(entries, path)
    ELSE Append(Tail(entries), path)

\* the rendered route element is a <Navigate />, whose effect has not run yet
RedirectPending == "navigate" \in DOMAIN appView.children

\* the app opened at some URL; what the auth context holds at first is not
\* known
InitApp ==
    /\ location \in Paths
    /\ history = << location >>
    /\ isAuthenticated \in BOOLEAN
    /\ authLoading \in BOOLEAN
    /\ appView = App(location, isAuthenticated, authLoading)

InitAppUnmounted ==
    /\ location = "/"
    /\ history = << "/" >>
    /\ isAuthenticated = FALSE
    /\ authLoading = FALSE
    /\ appView = App("/", FALSE, FALSE)

\* the effect of <Navigate to />: navigate(to), and the render of the new
\* location; it runs before any event is handled
NavigateEffect ==
    /\ mounted = "App"
    /\ RedirectPending
    /\ location' = appView.children.navigate
    /\ history' = push(history, location')
    /\ appView' = App(location', isAuthenticated, authLoading)
    /\ UNCHANGED <<mounted, settingsVars, loginVars, isAuthenticated, authLoading, stockVars, dashVars,
                   scanVars>>

\* the user opens a URL: the page loads and the auth context starts anew
LoadUrl ==
    /\ mounted = "App"
    /\ ~RedirectPending
    /\ \E path \in Paths, auth \in BOOLEAN, loading \in BOOLEAN :
          /\ location' = path
          /\ history' = push(history, path)
          /\ isAuthenticated' = auth
          /\ authLoading' = loading
          /\ appView' = App(path, auth, loading)
    /\ UNCHANGED <<mounted, settingsVars, loginVars, stockVars, dashVars, scanVars>>

\* the navbar's brand, Settings and Compliance entries: navigate(path)
HandleNavigation ==
    /\ mounted = "App"
    /\ ~RedirectPending
    /\ appView.navbar
    /\ \E path \in ProtectedPaths :
          /\ location' = path
          /\ history' = push(history, path)
          /\ appView' = App(path, isAuthenticated, authLoading)
    /\ UNCHANGED <<mounted, settingsVars, loginVars, isAuthenticated, authLoading, stockVars, dashVars,
                   scanVars>>

\* the navbar's handleSignOut, when signOut() resolves: the context drops the
\* user and the handler navigates to /login
HandleSignOut ==
    /\ mounted = "App"
    /\ ~RedirectPending
    /\ appView.navbar
    /\ isAuthenticated' = FALSE
    /\ location' = "/login"
    /\ history' = push(history, "/login")
    /\ appView' = App("/login", FALSE, authLoading)
    /\ UNCHANGED <<mounted, settingsVars, loginVars, authLoading, stockVars, dashVars, scanVars>>

\* the auth context changes (a sign-in resolved, the session was restored or
\* has expired) and the app renders again at the same location
AuthStateChanged ==
    /\ mounted = "App"
    /\ ~RedirectPending
    /\ \E auth \in BOOLEAN, loading \in BOOLEAN :
          /\ << auth, loading >> # << isAuthenticated, authLoading >>
          /\ isAuthenticated' = auth
          /\ authLoading' = loading
          /\ appView' = App(location, auth, loading)
    /\ UNCHANGED <<mounted, settingsVars, loginVars, location, history, stockVars, dashVars, scanVars>>

\* the browser's back button
GoBack ==
    /\ mounted = "App"
    /\ ~RedirectPending
    /\ Len(history) > 1
    /\ history' = SubSeq(history, 1, Len(history) - 1)
    /\ location' = history'[Len(history')]
    /\ appView' = App(location', isAuthenticated, authLoading)
    /\ UNCHANGED <<mounted, settingsVars, loginVars, isAuthenticated, authLoading, stockVars, dashVars,
                   scanVars>>

NextApp ==
    \/ NavigateEffect
    \/ LoadUrl
    \/ HandleNavigation
    \/ HandleSignOut
    \/ AuthStateChanged
    \/ GoBack

(***************************************************************************)
(* Settings: the password form.                                            *)
(***************************************************************************)
\* no call of the auth context is in flight
NoCall == [none |-> TRUE]

\* what is typed into a password field
Passwords == {"", "Passw0rd", "passw0rd"}

\* useAuth().updatePassword(newPassword) resolves with { error: null },
\* resolves with { error: {...} }, or rejects
UpdateOutcomes == {"ok", "error-object", "rejected"}

EmptyPasswordData == [currentPassword |-> "", newPassword |-> "", confirmPassword |-> ""]

\* the toast after the awaited call: try shows success whenever the promise
\* resolves, catch shows the failure when it rejects
toastAfterUpdate(outcome) ==
    IF outcome = "rejected" THEN "Failed to update password"
    ELSE "Password updated successfully!"

\* the form after the awaited call: cleared on the try path only
passwordDataAfterUpdate(data, outcome) ==
    IF outcome = "rejected" THEN data ELSE EmptyPasswordData

InitSettings ==
    /\ passwordData = EmptyPasswordData
    /\ settingsLoading = FALSE
    /\ settingsToast = ""
    /\ passwordUpdate = NoCall
    /\ updateResult = ""
    /\ updateCalls = 0

InitSettingsUnmounted == InitSettings

\* onChange of one of the three inputs
SetPasswordData ==
    /\ mounted = "Settings"
    /\ \E field \in {"currentPassword", "newPassword", "confirmPassword"}, value \in Passwords :
        /\ passwordData[field] # value
        /\ passwordData' = [passwordData EXCEPT ![field] = value]
    /\ UNCHANGED <<mounted, routeVars, loginVars, settingsLoading, settingsToast,
                   passwordUpdate, updateResult, updateCalls, stockVars, dashVars,
                   scanVars>>

\* the form is submitted: the three inputs are required, and the button is
\* disabled while loading; up to the await
HandlePasswordUpdate ==
    /\ mounted = "Settings"
    /\ ~settingsLoading
    /\ passwordData.currentPassword # ""
    /\ passwordData.newPassword # ""
    /\ passwordData.confirmPassword # ""
    /\ IF passwordData.newPassword # passwordData.confirmPassword
       THEN /\ settingsToast' = "New passwords do not match"
            /\ UNCHANGED <<settingsLoading, passwordUpdate, updateCalls>>
       ELSE /\ updateCalls < MaxCalls
            /\ settingsLoading' = TRUE
            /\ passwordUpdate' = [newPassword |-> passwordData.newPassword,
                                  confirmPassword |-> passwordData.confirmPassword]
            /\ updateCalls' = updateCalls + 1
            /\ UNCHANGED settingsToast
    /\ UNCHANGED <<mounted, routeVars, loginVars, passwordData, updateResult, stockVars,
                   dashVars, scanVars>>

\* the awaited updatePassword settles: the rest of try, or catch, and finally
UpdatePasswordSettles ==
    /\ mounted = "Settings"
    /\ passwordUpdate # NoCall
    /\ \E outcome \in UpdateOutcomes :
        /\ updateResult' = outcome
        /\ settingsToast' = toastAfterUpdate(outcome)
        /\ passwordData' = passwordDataAfterUpdate(passwordData, outcome)
    /\ settingsLoading' = FALSE
    /\ passwordUpdate' = NoCall
    /\ UNCHANGED <<mounted, routeVars, loginVars, updateCalls, stockVars, dashVars, scanVars>>

NextSettings ==
    \/ SetPasswordData
    \/ HandlePasswordUpdate
    \/ UpdatePasswordSettles

(***************************************************************************)
(* Login: the sign-in and sign-up form, and its validation.                *)
(***************************************************************************)
LowercaseLetters == "abcdefghijklmnopqrstuvwxyz"

UppercaseLetters == "ABCDEFGHIJKLMNOPQRSTUVWXYZ"

Digits == "0123456789"

\* the characters of a string, as a set
CharsOf(s) == {CharAt(s, i) : i \in 1..Len(s)}

\* \s, of which the inputs here hold the space only
Whitespace == {" "}

\* /^[^\s@]+@[^\s@]+\.[^\s@]+$/ : a part, '@', a part, '.', a part, and no
\* white space or second '@' in any part
validateEmail(email) ==
    \E i, j \in 1..Len(email) :
        /\ 1 < i
        /\ i + 1 < j
        /\ j < Len(email)
        /\ CharAt(email, i) = "@"
        /\ CharAt(email, j) = "."
        /\ \A k \in (1..Len(email)) \ {i} : CharAt(email, k) \notin (Whitespace \cup {"@"})

\* the errors pushed, in order
validatePasswordErrors(password) ==
    (IF Len(password) < 8 THEN << "Password must be at least 8 characters long" >> ELSE << >>)
    \o (IF CharsOf(password) \cap CharsOf(LowercaseLetters) = {}
        THEN << "Password must contain at least one lowercase letter" >> ELSE << >>)
    \o (IF CharsOf(password) \cap CharsOf(UppercaseLetters) = {}
        THEN << "Password must contain at least one uppercase letter" >> ELSE << >>)
    \o (IF CharsOf(password) \cap CharsOf(Digits) = {}
        THEN << "Password must contain at least one number" >> ELSE << >>)

validatePassword(password) ==
    [isValid |-> Len(validatePasswordErrors(password)) = 0,
     errors |-> validatePasswordErrors(password)]

\* the error of a field; '' stands for a key that is absent
emailError(email) ==
    IF email = "" THEN "Email is required"
    ELSE IF ~validateEmail(email) THEN "Please enter a valid email address"
    ELSE ""

passwordError(password, signUp) ==
    IF password = "" THEN "Password is required"
    ELSE IF signUp /\ ~validatePassword(password).isValid
         THEN validatePassword(password).errors[1]
    ELSE ""

\* validateForm with the password rules left out
validateForm_NoPasswordRules(email, password, signUp) ==
    [isValid |-> emailError(email) = "" /\ passwordError(password, FALSE) = "",
     errors |-> [email |-> emailError(email), password |-> passwordError(password, FALSE),
                 confirmPassword |-> ""]]

validateForm(email, password, signUp) ==
    [isValid |-> emailError(email) = "" /\ passwordError(password, signUp) = "",
     errors |-> [email |-> emailError(email), password |-> passwordError(password, signUp),
                 confirmPassword |-> ""]]

\* what is typed into the email field
Emails == {"", "a@b.co", "a@b", "a b@c.d", "@b.c"}

\* what is typed into a password field of the login form
LoginPasswords == {"", "Passw0rd", "passw0rd", "PASSW0RD", "Password", "Pw0rd"}

NoErrors == [email |-> "", password |-> "", confirmPassword |-> ""]

EmptyFormData == [email |-> "", password |-> "", confirmPassword |-> ""]

\* signIn and signUp resolve with { error: null }, resolve with
\* { error: {...} }, or reject
AuthOutcomes == {"ok", "error-object", "rejected"}

\* message.type after the awaited call
messageAfterAuth(msg, call, outcome) ==
    CASE outcome = "rejected" -> "error"
      [] outcome = "error-object" -> "error"
      [] call.signUp -> "success"
      [] OTHER -> msg

InitLogin ==
    /\ formData = EmptyFormData
    /\ isSignUp = FALSE
    /\ loginLoading = FALSE
    /\ formErrors = NoErrors
    /\ loginMessage = ""
    /\ authCall = NoCall
    /\ authCalls = 0
    /\ switchTimers = 0
    /\ isSupabaseConfigured \in BOOLEAN

InitLoginUnmounted ==
    /\ InitLogin
    /\ isSupabaseConfigured = TRUE

\* onChange of an input: the inputs are disabled while loading, and the
\* confirmation is rendered in sign-up mode only
HandleInputChange ==
    /\ mounted = "Login"
    /\ ~loginLoading
    /\ \/ \E value \in Emails :
            /\ formData.email # value
            /\ formData' = [formData EXCEPT !.email = value]
            /\ formErrors' = [formErrors EXCEPT !.email = ""]
       \/ \E value \in LoginPasswords :
            /\ formData.password # value
            /\ formData' = [formData EXCEPT !.password = value]
            /\ formErrors' = [formErrors EXCEPT !.password = ""]
       \/ \E value \in LoginPasswords :
            /\ isSignUp
            /\ formData.confirmPassword # value
            /\ formData' = [formData EXCEPT !.confirmPassword = value]
            /\ formErrors' = [formErrors EXCEPT !.confirmPassword = ""]
    /\ UNCHANGED <<mounted, routeVars, settingsVars, isSignUp, loginLoading, loginMessage,
                   authCall, authCalls, switchTimers, isSupabaseConfigured, stockVars,
                   dashVars, scanVars>>

\* the link under the form, disabled while loading
ToggleMode ==
    /\ mounted = "Login"
    /\ ~loginLoading
    /\ isSignUp' = ~isSignUp
    /\ formErrors' = NoErrors
    /\ loginMessage' = ""
    /\ formData' = [formData EXCEPT !.password = "", !.confirmPassword = ""]
    /\ UNCHANGED <<mounted, routeVars, settingsVars, loginLoading, authCall, authCalls,
                   switchTimers, isSupabaseConfigured, stockVars, dashVars, scanVars>>

\* the form is submitted, its required inputs filled in; up to the await
HandleAuth ==
    /\ mounted = "Login"
    /\ ~loginLoading
    /\ formData.email # ""
    /\ formData.password # ""
    /\ isSignUp => formData.confirmPassword # ""
    /\ IF ~isSupabaseConfigured
       THEN /\ loginMessage' = "error"
            /\ loginLoading' = FALSE
            /\ UNCHANGED <<formErrors, authCall, authCalls>>
       ELSE IF ~validateForm(formData.email, formData.password, isSignUp).isValid
       THEN /\ loginMessage' = ""
            /\ formErrors' = validateForm(formData.email, formData.password, isSignUp).errors
            /\ loginLoading' = FALSE
            /\ UNCHANGED <<authCall, authCalls>>
       ELSE IF isSignUp /\ formData.password # formData.confirmPassword
       THEN /\ loginMessage' = ""
            /\ formErrors' = [NoErrors EXCEPT !.confirmPassword = "Passwords do not match"]
            /\ loginLoading' = FALSE
            /\ UNCHANGED <<authCall, authCalls>>
       ELSE /\ authCalls < MaxCalls
            /\ loginMessage' = ""
            /\ loginLoading' = TRUE
            /\ authCall' = [signUp |-> isSignUp, email |-> formData.email,
                            password |-> formData.password]
            /\ authCalls' = authCalls + 1
            /\ UNCHANGED formErrors
    /\ UNCHANGED <<mounted, routeVars, settingsVars, formData, isSignUp, switchTimers,
                   isSupabaseConfigured, stockVars, dashVars, scanVars>>

\* the awaited signIn or signUp settles: the rest of try, or catch, and
\* finally
AuthCallSettles ==
    /\ mounted = "Login"
    /\ authCall # NoCall
    /\ \E outcome \in AuthOutcomes :
        /\ loginMessage' = messageAfterAuth(loginMessage, authCall, outcome)
        /\ switchTimers' = IF outcome = "ok" /\ authCall.signUp THEN switchTimers + 1
                           ELSE switchTimers
    /\ loginLoading' = FALSE
    /\ authCall' = NoCall
    /\ UNCHANGED <<mounted, routeVars, settingsVars, formData, isSignUp, formErrors,
                   authCalls, isSupabaseConfigured, stockVars, dashVars, scanVars>>

\* the timer set after a successful sign up fires
SwitchToSignIn ==
    /\ mounted = "Login"
    /\ switchTimers > 0
    /\ switchTimers' = switchTimers - 1
    /\ isSignUp' = FALSE
    /\ loginMessage' = ""
    /\ UNCHANGED <<mounted, routeVars, settingsVars, formData, loginLoading, formErrors,
                   authCall, authCalls, isSupabaseConfigured, stockVars, dashVars,
                   scanVars>>

NextLogin ==
    \/ HandleInputChange
    \/ ToggleMode
    \/ HandleAuth
    \/ AuthCallSettles
    \/ SwitchToSignIn

(***************************************************************************)
(* Specifications.                                                         *)
(***************************************************************************)
\* the stock table alone
InitStock ==
    /\ mounted = "PharmacyStockTable"
    /\ InitAppUnmounted
    /\ InitSettingsUnmounted
    /\ InitLoginUnmounted
    /\ stockCsv \in {CsvFile(rows) : rows \in CsvOneRow} \cup {CsvUnavailable}
    /\ InitStockTable
    /\ InitDashboardUnmounted
    /\ InitScanUnmounted

SpecStock == InitStock /\ [][NextStock]_vars

\* the stock table explored: three rows, searched, filtered and sorted
InitStockExplore ==
    /\ mounted = "PharmacyStockTable"
    /\ InitAppUnmounted
    /\ InitSettingsUnmounted
    /\ InitLoginUnmounted
    /\ stockCsv \in {CsvFile(rows) : rows \in CsvThreeRows} \cup {CsvUnavailable}
    /\ InitStockTable
    /\ InitDashboardUnmounted
    /\ InitScanUnmounted

SpecStockExplore == InitStockExplore /\ [][NextStockExplore]_vars

\* the places that compute days of supply: the stock table, or the dashboard
\* with the simulation panel
InitDaysOfSupply ==
    \/ InitStock
    \/ /\ mounted = "DashboardSim"
       /\ InitAppUnmounted
       /\ InitSettingsUnmounted
       /\ InitLoginUnmounted
       /\ stockCsv = CsvUnavailable
       /\ InitStockTable
       /\ InitDashboardSim
       /\ InitScanUnmounted

NextDaysOfSupply == NextStock \/ NextDashboard

SpecDaysOfSupply == InitDaysOfSupply /\ [][NextDaysOfSupply]_vars

\* the compliance views: the scan table fed by the backend, or the dashboard
\* with the recalled rows
InitCompliance ==
    \/ /\ mounted = "InventoryScanTable"
       /\ InitAppUnmounted
       /\ InitSettingsUnmounted
       /\ InitLoginUnmounted
       /\ stockCsv = CsvUnavailable
       /\ InitStockTable
       /\ InitDashboardUnmounted
       /\ backendInventory \in OneItemInventories \cup TwoItemInventories
       /\ wireInfinite = JsNull
       /\ localStorage = EmptyStorage
       /\ InitScanTable
    \/ /\ mounted = "DashboardRecall"
       /\ InitAppUnmounted
       /\ InitSettingsUnmounted
       /\ InitLoginUnmounted
       /\ stockCsv = CsvUnavailable
       /\ InitStockTable
       /\ InitDashboardRecall
       /\ InitScanUnmounted

\* the scans of one mounted table; the progress messages are left to the
\* session model
NextCompliance == PerformInventoryScan \/ FetchSettles \/ ClearScanData

SpecCompliance == InitCompliance /\ [][NextCompliance]_vars

\* the scan table explored: the scan of an earlier session is in localStorage
\* when the table mounts, and is searched, filtered, sorted and paged
InitScanExplore ==
    /\ mounted = "InventoryScanTable"
    /\ InitAppUnmounted
    /\ InitSettingsUnmounted
    /\ InitLoginUnmounted
    /\ stockCsv = CsvUnavailable
    /\ InitStockTable
    /\ InitDashboardUnmounted
    /\ backendInventory \in ExploreInventories \cup {BigInventory}
    /\ wireInfinite \in SentinelsFor(backendInventory)
    /\ localStorage = Persisted(EmptyStorage,
                           WireResponse(ScanResponse(backendInventory), wireInfinite), 1)
    /\ InitScanTable

\* a session of scans on the two pages that host the scan table: scanning,
\* clearing, and navigating from one page to the other
InitScanSession ==
    /\ mounted = "InventoryScanTable"
    /\ InitAppUnmounted
    /\ InitSettingsUnmounted
    /\ InitLoginUnmounted
    /\ stockCsv = CsvUnavailable
    /\ InitStockTable
    /\ InitDashboardUnmounted
    /\ backendInventory \in SessionInventories
    /\ wireInfinite \in SentinelsFor(backendInventory)
    /\ localStorage = EmptyStorage
    /\ InitScanTable

NextScanSession == NextScan \/ Remount

SpecScanSession == InitScanSession /\ [][NextScanSession]_vars

\* scans of one inventory, in which every request eventually settles
InitScanSettles ==
    /\ InitScanSession
    /\ backendInventory = << NamedItem(2, "Drug B", 55, 4, "NONE") >>

NextScanSettles == PerformInventoryScan \/ FetchSettles \/ ClearScanData \/ Remount

SpecScanSettles ==
    InitScanSettles /\ [][NextScanSettles]_vars /\ WF_vars(FetchSettles)

\* the cached scan over a session: the table mounts with no cached scan, or
\* with the cached scan of an earlier session (more than one page of it); it
\* is scanned, cleared, searched, filtered, sorted, paged and remounted
InitScanCache ==
    /\ mounted = "InventoryScanTable"
    /\ InitAppUnmounted
    /\ InitSettingsUnmounted
    /\ InitLoginUnmounted
    /\ stockCsv = CsvUnavailable
    /\ InitStockTable
    /\ InitDashboardUnmounted
    /\ wireInfinite = JsNull
    /\ \/ /\ backendInventory = << NamedItem(2, "Drug B", 55, 4, "NONE") >>
          /\ localStorage = EmptyStorage
       \/ /\ backendInventory = BigInventory
          /\ localStorage = Persisted(EmptyStorage,
                                 WireResponse(ScanResponse(backendInventory), wireInfinite), MaxScans)
    /\ InitScanTable

NextScanCache ==
    \/ PerformInventoryScan
    \/ FetchSettles
    \/ ClearScanData
    \/ Remount
    \/ NextScanExplore

SpecScanCache == InitScanCache /\ [][NextScanCache]_vars

\* paging over a session: the table mounts with the cached scan of an earlier
\* session, of more than one page, and the backend's inventory has since
\* shrunk to one item
InitScanPages ==
    /\ mounted = "InventoryScanTable"
    /\ InitAppUnmounted
    /\ InitSettingsUnmounted
    /\ InitLoginUnmounted
    /\ stockCsv = CsvUnavailable
    /\ InitStockTable
    /\ InitDashboardUnmounted
    /\ wireInfinite = JsNull
    /\ backendInventory = << NamedItem(2, "Drug B", 55, 4, "NONE") >>
    /\ localStorage = Persisted(EmptyStorage,
                           WireResponse(ScanResponse(BigInventory), wireInfinite), 1)
    /\ InitScanTable

NextScanPages ==
    \/ PerformInventoryScan
    \/ FetchSettles
    \/ ClearScanData
    \/ NextScanExplore

SpecScanPages == InitScanPages /\ [][NextScanPages]_vars

\* the AI recommendations modal over the rows of a cached scan
InitAIModal ==
    /\ mounted = "InventoryScanTable"
    /\ InitAppUnmounted
    /\ InitSettingsUnmounted
    /\ InitLoginUnmounted
    /\ stockCsv = CsvUnavailable
    /\ InitStockTable
    /\ InitDashboardUnmounted
    /\ backendInventory \in ExploreInventories
    /\ wireInfinite = JsNull
    /\ localStorage = Persisted(EmptyStorage,
                           WireResponse(ScanResponse(backendInventory), wireInfinite), 1)
    /\ InitScanTable

SpecAIModal == InitAIModal /\ [][NextAIModal]_vars

\* a cached scan whose alert_level tags are written in lower case
LowerCaseTags(response) ==
    LET lower(items) ==
            [i \in 1..Len(items) |->
                [items[i] EXCEPT !.alert_level = toLowerCase(items[i].alert_level)]]
    IN [response EXCEPT !.recalls = lower(response.recalls),
                        !.other_alerts = lower(response.other_alerts)]

\* the scan table filtering a cached scan of one page, whose tags are in
\* upper case as the scan response writes them, or in lower case
InitScanFilter ==
    /\ mounted = "InventoryScanTable"
    /\ InitAppUnmounted
    /\ InitSettingsUnmounted
    /\ InitLoginUnmounted
    /\ stockCsv = CsvUnavailable
    /\ InitStockTable
    /\ InitDashboardUnmounted
    /\ backendInventory \in ExploreInventories
    /\ wireInfinite = JsNull
    /\ \E cached \in {WireResponse(ScanResponse(backendInventory), wireInfinite)} :
          localStorage \in {Persisted(EmptyStorage, cached, 1),
                            Persisted(EmptyStorage, LowerCaseTags(cached), 1)}
    /\ InitScanTable

NextScanFilter == SetSearchTerm \/ SetFilterConfig \/ HandleSort

SpecScanFilter == InitScanFilter /\ [][NextScanFilter]_vars

\* either table, explored
InitExplore == InitStockExplore \/ InitScanExplore

NextExplore == NextStockExplore \/ NextScanExplore

SpecExplore == InitExplore /\ [][NextExplore]_vars

\* the app with its routes
InitRoutes ==
    /\ mounted = "App"
    /\ InitApp
    /\ InitSettingsUnmounted
    /\ InitLoginUnmounted
    /\ stockCsv = CsvUnavailable
    /\ InitStockTable
    /\ InitDashboardUnmounted
    /\ InitScanUnmounted

SpecRoutes == InitRoutes /\ [][NextApp]_vars

\* the Settings page: the password form
InitSettingsPage ==
    /\ mounted = "Settings"
    /\ InitAppUnmounted
    /\ InitSettings
    /\ InitLoginUnmounted
    /\ stockCsv = CsvUnavailable
    /\ InitStockTable
    /\ InitDashboardUnmounted
    /\ InitScanUnmounted

SpecSettings == InitSettingsPage /\ [][NextSettings]_vars

\* the Login page: the sign-in and sign-up form
InitLoginPage ==
    /\ mounted = "Login"
    /\ InitAppUnmounted
    /\ InitSettingsUnmounted
    /\ InitLogin
    /\ stockCsv = CsvUnavailable
    /\ InitStockTable
    /\ InitDashboardUnmounted
    /\ InitScanUnmounted

SpecLogin == InitLoginPage /\ [][NextLogin]_vars

(***************************************************************************)
(* Properties of the stock table (PharmacyStockTable.jsx).                 *)
(***************************************************************************)
StockRows == {stockView[i] : i \in 1..Len(stockView)}

\* C2: a row at or below the 50-unit floor is shown as 'shortage' in blue,
\* whatever its days of supply: the floor is tested before the bands.
C2_FloorBeforeBands ==
    \A r \in StockRows :
        r.quantity <= 50 => r.status = "shortage" /\ r.color = Blue

\* stock 30, 5 a day: 6 days of supply, in the red band, yet shown as shortage
C2_Witness ==
    \E r \in StockRows :
        /\ r.quantity = 30 /\ r.avgDailyDispensed = 5
        /\ r.daysRemaining = Num(6)
        /\ r.status = "shortage"

\* C3 as stated: above the floor, more than 56 days of supply or an infinite
\* supply is classified 'good' (optimal, green).
C3_Original_GoodAbove56 ==
    \A r \in StockRows :
        (r.quantity > 50 /\ NumGeq(r.daysRemaining, 57))
            => r.status = "good" /\ r.color = Green

\* C3 amended: above the floor, more than 56 days of supply or an infinite
\* supply is classified 'low' (8+ weeks, yellow); 'good' is never assigned.
C3_LowAbove56 ==
    \A r \in StockRows :
        /\ (r.quantity > 50 /\ NumGeq(r.daysRemaining, 57))
              => r.status = "low" /\ r.color = Yellow
        /\ r.status # "good"

\* zero usage above the floor: an infinite supply, shown in the 8+ weeks band
C3_Witness ==
    \E r \in StockRows :
        /\ r.quantity > 50 /\ r.avgDailyDispensed = 0
        /\ r.daysRemaining = Infinity
        /\ r.status = "low"

\* C4: above the floor, 14 days of supply or less is 'high' (red), and 15 days
\* or more is not.
C4_RedUpTo14 ==
    \A r \in StockRows :
        r.quantity > 50 =>
            /\ NumLeq(r.daysRemaining, 14) => r.status = "high" /\ r.color = Red
            /\ NumGeq(r.daysRemaining, 15) => r.status # "high" /\ r.color # Red

\* stock 450, 32 a day: exactly 14 days, red
C4_Witness ==
    \E r \in StockRows :
        /\ r.quantity = 450 /\ r.avgDailyDispensed = 32
        /\ r.daysRemaining = Num(14)
        /\ r.status = "high"

\* C5: above the floor, 15 to 56 days of supply is 'medium', drawn in purple;
\* 'medium' is assigned to no row outside 15..56 days.
C5_MediumBand ==
    \A r \in StockRows :
        /\ (r.quantity > 50 /\ NumGeq(r.daysRemaining, 15) /\ NumLeq(r.daysRemaining, 56))
              => r.status = "medium" /\ r.color = Purple
        /\ r.status = "medium"
              => NumGeq(r.daysRemaining, 15) /\ NumLeq(r.daysRemaining, 56)

\* a row with exactly 56 days of supply is in the band
C5_Witness ==
    \E r \in StockRows :
        /\ r.quantity > 50
        /\ r.daysRemaining = Num(56)
        /\ r.status = "medium" /\ r.color = Purple

\* C7: with zero average daily dispense the days of supply is Infinity, for
\* every stock including 0, never the number 0.
C7_ZeroUsageInfinite ==
    \A r \in StockRows :
        r.avgDailyDispensed = 0 =>
            /\ r.daysRemaining = Infinity
            /\ r.daysRemaining # Num(0)
            /\ r.daysText = "infinite"

\* stock 0 and usage 0 (0/0 were it divided)
C7_Witness ==
    \E r \in StockRows :
        /\ r.quantity = 0 /\ r.avgDailyDispensed = 0
        /\ r.daysRemaining = Infinity

\* high > medium > low > good
Urgency(status) ==
    CASE status = "high" -> 3
      [] status = "medium" -> 2
      [] status = "low" -> 1
      [] OTHER -> 0

\* C10: above the floor, with the daily dispense held fixed, a larger stock is
\* never in a more urgent band than a smaller one.
C10_Monotone ==
    \A r \in StockRows :
        r.quantity > 50 =>
            \A q2 \in (r.quantity + 1)..(r.quantity + RestockSpan) :
                Urgency(getStockStatus(q2, r.avgDailyDispensed)) <= Urgency(r.status)

\* a red row that restocking moves through purple to yellow
C10_Witness ==
    \E r \in StockRows :
        /\ r.quantity > 50 /\ r.status = "high"
        /\ \E q2 \in (r.quantity + 1)..(r.quantity + RestockSpan) :
              getStockStatus(q2, r.avgDailyDispensed) = "medium"
        /\ \E q3 \in (r.quantity + 1)..(r.quantity + RestockSpan) :
              getStockStatus(q3, r.avgDailyDispensed) = "low"

\* C11: a row whose quantity or average daily dispense is negative is rejected
\* (InvalidInventoryData): it is never clamped and never shown as a classified
\* row of the stock table.
C11_NegativeRejected ==
    \A r \in StockRows : r.quantity >= 0 /\ r.avgDailyDispensed >= 0


\* C12: in every state of the stock table, whatever the search term and the
\* filter, the bucket counts of the summary cards add up to the 'Total Items'
\* count shown.
C12_BucketsSumToTotal ==
    ~stockLoading =>
        stockSummary.critical + stockSummary.shortages + stockSummary.medium
            + stockSummary.low = stockSummary.totalItems

(***************************************************************************)
(* Properties of the days-of-supply computation, in both places.           *)
(***************************************************************************)
\* d is the integer floor of q / a, for a > 0
IsFloorOf(d, q, a) == d * a <= q /\ q < (d + 1) * a

\* C8: with a positive daily dispense the days of supply is the integer floor
\* of stock / daily dispense, in the stock table's rows and in every row the
\* simulated-shortage update has written.
C8_FloorDivision ==
    /\ \A r \in StockRows :
          r.avgDailyDispensed > 0 =>
              /\ ~r.daysRemaining.inf
              /\ IsFloorOf(r.daysRemaining.n, r.quantity, r.avgDailyDispensed)
    /\ \A i \in 1..Len(inventoryList) :
          (mounted = "DashboardSim" /\ inventoryList[i] # MockInventory[i]
             /\ inventoryList[i].avg_daily_use > 0)
            => IsFloorOf(inventoryList[i].days_of_supply,
                         inventoryList[i].stock_level,
                         inventoryList[i].avg_daily_use)

\* a shortage event has cut Lisinopril from 120 to 36 units: 36 / 15 = 2.4,
\* shown as 2 days
C8_Witness ==
    \E i \in 1..Len(inventoryList) :
        /\ inventoryList[i].drug_name = "Lisinopril 10mg"
        /\ inventoryList[i].stock_level = 36
        /\ inventoryList[i].avg_daily_use = 15
        /\ inventoryList[i].days_of_supply = 2
        /\ dashView[i].days_of_supply = 2

(***************************************************************************)
(* Properties of the compliance views.                                     *)
(***************************************************************************)
ScanShown == mounted = "InventoryScanTable" /\ scanData # NullScan

\* C1: an item with a RECALL signal is classified PURPLE whatever its stock and
\* daily dispense: it is in the recalls bucket and shown as 'Recalled' in
\* purple; and the dashboard styles every recalled row as recalled, before
\* looking at its alert.
C1_RecallPrecedence ==
    /\ ScanShown =>
          /\ \A k \in 1..Len(backendInventory) :
                (ValidInventoryData(backendInventory[k])
                   /\ backendInventory[k].signal = "RECALL")
                  => \E i \in 1..Len(scanData.recalls) :
                        /\ scanData.recalls[i].id = backendInventory[k].id
                        /\ scanData.recalls[i].alert_level = "PURPLE"
          /\ \A i \in 1..Len(scanView) :
                allItems(scanData)[i].signal = "RECALL"
                  => /\ scanView[i].alert_level = "PURPLE"
                     /\ scanView[i].label = "Recalled"
                     /\ scanView[i].color = Purple
    /\ \A i \in 1..Len(dashView) :
          inventoryList[i].isRecalled
            => dashView[i].style = RecallStyle /\ dashView[i].recallBadge

\* a recalled item below the 50-unit floor, with no usage, shown as Recalled
C1_Witness ==
    /\ ScanShown
    /\ \E i \in 1..Len(scanView) :
          /\ allItems(scanData)[i].signal = "RECALL"
          /\ scanView[i].current_stock <= 50
          /\ scanView[i].average_daily_dispense = 0
          /\ scanView[i].label = "Recalled"

\* C6: an item whose signal is DISCONTINUED is classified YELLOW whatever its
\* stock numbers (the signal rules come before the floor and the bands): it is
\* in other_alerts and shown as 'Discontinued' in yellow.
C6_DiscontinuedYellow ==
    ScanShown =>
        /\ \A k \in 1..Len(backendInventory) :
              (ValidInventoryData(backendInventory[k])
                 /\ backendInventory[k].signal = "DISCONTINUED")
                => \E i \in 1..Len(scanData.other_alerts) :
                      /\ scanData.other_alerts[i].id = backendInventory[k].id
                      /\ scanData.other_alerts[i].alert_level = "YELLOW"
        /\ \A i \in 1..Len(scanView) :
              allItems(scanData)[i].signal = "DISCONTINUED"
                => /\ scanView[i].alert_level = "YELLOW"
                   /\ scanView[i].label = "Discontinued"
                   /\ scanView[i].color = Yellow

\* a discontinued item above the floor with 13 days of supply (the red band)
C6_Witness ==
    /\ ScanShown
    /\ \E i \in 1..Len(scanView) :
          /\ allItems(scanData)[i].signal = "DISCONTINUED"
          /\ scanView[i].current_stock = 55
          /\ scanView[i].days_of_supply = Num(13)
          /\ scanView[i].label = "Discontinued"

\* C9: a row shows 'Immediate Action Required' exactly when its alert level is
\* RED or PURPLE: every row of the recalls bucket shows it, no row of
\* other_alerts does.
C9_ImmediateActionIff ==
    ScanShown =>
        /\ \A i \in 1..Len(scanView) :
              scanView[i].immediateAction <=> scanView[i].alert_level \in {"RED", "PURPLE"}
        /\ \A i \in 1..Len(scanData.recalls) : scanView[i].immediateAction
        /\ \A i \in 1..Len(scanData.other_alerts) :
              ~scanView[Len(scanData.recalls) + i].immediateAction

\* a RED row with the badge next to a BLUE row without it
C9_Witness ==
    /\ ScanShown
    /\ \E i, j \in 1..Len(scanView) :
          /\ scanView[i].alert_level = "RED" /\ scanView[i].immediateAction
          /\ scanView[j].alert_level = "BLUE" /\ ~scanView[j].immediateAction

(***************************************************************************)
(* Properties of the search, filter, sort and pagination of both tables.   *)
(***************************************************************************)
\* C13: sorted by days of supply, ascending shows every infinite-supply row
\* (no usage) after every row with a finite value and descending shows them
\* first, in the stock table and in the scan table.
C13_InfiniteLast ==
    /\ (mounted = "PharmacyStockTable" /\ stockSortConfig.key = "daysRemaining") =>
          \A i, j \in 1..Len(stockView) :
              (stockView[i].avgDailyDispensed = 0 /\ stockView[j].avgDailyDispensed # 0)
                => IF stockSortConfig.direction = "asc" THEN i > j ELSE i < j
    /\ (mounted = "InventoryScanTable" /\ sortConfig.key = "days_of_supply") =>
          \A i, j \in 1..Len(scanView) :
              (scanView[i].average_daily_dispense = 0
                 /\ scanView[j].average_daily_dispense # 0)
                => IF sortConfig.direction = "asc" THEN i > j ELSE i < j

\* the place of the item with this id in a list of items or rows
PlaceOf(list, id) == CHOOSE i \in 1..Len(list) : list[i].id = id

ShownIds(view) == {view[i].id : i \in 1..Len(view)}

\* C14 as stated: a click on a column header leaves rows with equal keys in the
\* relative order they were shown in before the click.
C14_Original_KeepsShownOrder ==
    [][(mounted = "InventoryScanTable" /\ sortConfig' # sortConfig) =>
          \A i, j \in 1..Len(scanView) :
              (/\ i < j
               /\ {scanView[i].id, scanView[j].id} \subseteq ShownIds(scanView')
               /\ SortCompare(ScanSortValue(scanView[i], sortConfig'.key),
                              ScanSortValue(scanView[j], sortConfig'.key),
                              sortConfig'.direction) = 0)
                => PlaceOf(scanView', scanView[i].id) < PlaceOf(scanView', scanView[j].id)
      ]_vars

\* C14 amended: the rows shown are in the order of the sort key, and rows with
\* equal keys are in the order of the scan result (recalls, then other_alerts),
\* whatever was shown before; the rows are determined by the scan result, the
\* search term, the filter, the sort column and direction, and the page.
C14_StableOverListOrder ==
    (mounted = "InventoryScanTable" /\ sortConfig.key # "null") =>
        /\ \A i, j \in 1..Len(scanView) :
              i < j =>
                LET c == SortCompare(ScanSortValue(scanView[i], sortConfig.key),
                                     ScanSortValue(scanView[j], sortConfig.key),
                                     sortConfig.direction)
                IN /\ c <= 0
                   /\ c = 0 => PlaceOf(allItems(scanData), scanView[i].id)
                                 < PlaceOf(allItems(scanData), scanView[j].id)
        /\ scanView = RenderScan(paginatedData(
               ScanFilteredData(scanData, searchTerm, filterConfig, sortConfig).filteredData,
               currentPage))

\* sorted by stock: Drug B and Drug A, both with 30 units, in the order of the
\* scan result, which is not their order by name
C14_Witness ==
    /\ mounted = "InventoryScanTable"
    /\ sortConfig = [key |-> "current_stock", direction |-> "asc"]
    /\ Len(scanView) >= 2
    /\ scanView[1].drug_name = "Drug B" /\ scanView[2].drug_name = "Drug A"
    /\ scanView[1].current_stock = scanView[2].current_stock
    /\ PlaceOf(allItems(scanData), scanView[1].id) < PlaceOf(allItems(scanData), scanView[2].id)

\* the ids of a list of items or rows, in order
IdsOf(list) == [i \in 1..Len(list) |-> list[i].id]

\* the rows the table should show: the items that match the search term and
\* whose tag stands in relation `matches` to the requested level, or all of
\* them when 'all' is requested; in the order of the scan result while no sort
\* column is chosen
ShowsFiltered(matches(_, _)) ==
    (mounted = "InventoryScanTable" /\ scanData # NullScan) =>
        LET expected == SelectSeq(allItems(scanData), LAMBDA item :
                /\ includes(toLowerCase(item.drug_name), toLowerCase(searchTerm))
                /\ (filterConfig = "all" \/ matches(item.alert_level, filterConfig)))
        IN /\ ShownIds(scanView) = {expected[i].id : i \in 1..Len(expected)}
           /\ sortConfig.key = "null" => IdsOf(scanView) = IdsOf(expected)

\* the tag each filter button stands for
LevelOfFilter == [red |-> "RED", purple |-> "PURPLE", yellow |-> "YELLOW", blue |-> "BLUE"]

C16_ItemsNotMutated ==
    /\ mounted = "InventoryScanTable" =>
          /\ scanData = WireResponse(ScanResponse(backendInventory), wireInfinite)
          /\ localStorage.scan_data = scanData
    /\ (mounted = "PharmacyStockTable" /\ ~stockLoading) =>
          stockData = loadPharmacyStock(stockCsv)

\* all rows shown, sorted by name descending, in another order than the scan
\* result's
C16_Witness ==
    /\ mounted = "InventoryScanTable"
    /\ sortConfig = [key |-> "drug_name", direction |-> "desc"]
    /\ filterConfig = "all" /\ searchTerm = ""
    /\ Len(scanView) = 3
    /\ IdsOf(scanView) # IdsOf(allItems(scanData))

(***************************************************************************)
(* Properties of the scan request and of the cached scan.                  *)
(***************************************************************************)
\* C17: at most one scan request is in flight at any time, whatever the clicks,
\* re-renders and remounts.
C17_AtMostOneInFlight == Cardinality(scanFetch) <= 1

\* C18: there is no automatic retry: a request is sent only by a click on the
\* scan button (performInventoryScan up to its fetch), and the settling of a
\* fetch, failed or not, shows its toast and sends nothing.
C18_NoAutomaticRetry ==
    [][ /\ (scanFetch' \ scanFetch # {}) =>
              /\ PerformInventoryScan
              /\ Cardinality(scanFetch' \ scanFetch) = 1
        /\ FetchSettles =>
              /\ scanFetch' \subseteq scanFetch
              /\ scanSeq' = scanSeq
              /\ toast' \in ErrorToasts \cup {"Scan completed"} ]_vars

\* a scan has failed, the error is shown and nothing is in flight
C18_Witness ==
    /\ toast \in ErrorToasts
    /\ scanSeq >= 1
    /\ scanFetch = {}
    /\ ~scanLoading

\* the cached scan is both localStorage entries, and the scan the table holds
CacheKept ==
    /\ localStorage.scan_data # NullScan => localStorage'.scan_data # NullScan
    /\ localStorage.last_scan_time # 0 => localStorage'.last_scan_time # 0
    /\ scanData # NullScan => scanData' # NullScan

\* C19: the cached scan has one invalidation trigger: clearScanData removes both
\* localStorage entries and leaves the table in the state of a table that never
\* scanned, and every other step (a failed or successful scan, search, filter,
\* sort, paging, remount) keeps a cached scan and a shown scan.
C19_OnlyClearInvalidates ==
    [][ /\ ClearScanData =>
              /\ localStorage' = EmptyStorage
              /\ scanData' = NullScan
              /\ lastScanTime' = 0
              /\ ~isDataFromCache'
              /\ scanView' = <<>>
        /\ ~ClearScanData => CacheKept ]_vars

\* on the second page, after a failed scan, with a filter and a sort applied,
\* the cached scan is still stored and shown
C19_Witness ==
    /\ instance > 1
    /\ toast \in ErrorToasts
    /\ filterConfig # "all"
    /\ sortConfig # NoSort
    /\ localStorage.scan_data # NullScan
    /\ scanData = localStorage.scan_data

(***************************************************************************)
(* Properties of the routes.                                               *)
(***************************************************************************)
\* C20: while the user is not authenticated, /dashboard, /settings and
\* /compliance render only the redirect to /login, with neither their content
\* nor the navbar; while the user is authenticated, /login renders the redirect
\* to /dashboard.
C20_ProtectedRoutes ==
    mounted = "App" =>
        /\ (~isAuthenticated /\ location \in ProtectedPaths) =>
              appView = [navbar |-> FALSE, children |-> Navigate("/login")]
        /\ (isAuthenticated /\ location = "/login") =>
              appView.children = Navigate("/dashboard")

\* /settings reached by the back button after the session has ended
C20_Witness ==
    /\ mounted = "App"
    /\ ~isAuthenticated
    /\ location = "/settings"
    /\ Len(history) > 1
    /\ RedirectPending

(***************************************************************************)
(* Properties of the dashboard inventory.                                  *)
(***************************************************************************)
\* C21: days_of_supply is derived: in every state of the dashboard inventory,
\* the shipped rows and the rows after simulated shortage events, each row's
\* days_of_supply is the floor of stock_level / avg_daily_use.
C21_DaysDerived ==
    mounted \in {"DashboardSim", "DashboardRecall"} =>
        \A i \in 1..Len(inventoryList) :
            IsFloorOf(inventoryList[i].days_of_supply,
                      inventoryList[i].stock_level,
                      inventoryList[i].avg_daily_use)

(***************************************************************************)
(* Properties of the progress message, the page and the scan's outcome.    *)
(***************************************************************************)
\* C22: whenever no scan is in progress (loading is false) the progress
\* message is empty, whichever way the fetch has settled.
C22_NoMessageWhenIdle ==
    (mounted = "InventoryScanTable" /\ ~scanLoading) => loadingMessage = ""

\* C23: currentPage stays within 1..max(1, totalPages), so the page shown has
\* rows whenever the filtered list has any, after any scans, clears, searches,
\* filters, sorts and page clicks.
C23_PageInRange ==
    mounted = "InventoryScanTable" =>
        \E filteredData \in {ScanFilteredData(scanData, searchTerm, filterConfig,
                                              sortConfig).filteredData} :
            /\ currentPage >= 1
            /\ currentPage <= MathMax(1, totalPages(filteredData))
            /\ Len(filteredData) > 0 => Len(scanView) > 0

\* C24: whenever the AI recommendations modal displays recommendations (the
\* modal is shown, loadingAI is false and aiRecommendations is set), they are
\* the response to the request made for the currently selected drug.
C24_RecommendationsOfSelectedDrug ==
    (mounted = "InventoryScanTable" /\ showAIModal /\ ~loadingAI
       /\ aiRecommendations # JsNull)
        => aiRecommendations.drug_name = selectedDrug.drug_name

\* C25: after clearScanData, scanData, lastScanTime and both localStorage
\* entries stay absent until the user starts a new scan: whatever is stored or
\* shown comes from a scan started after the last clear, never from one that
\* was in flight when clear was pressed.
C25_ClearedStaysCleared ==
    mounted = "InventoryScanTable" =>
        /\ scanData # NullScan => lastScanTime > clearedAt
        /\ lastScanTime # 0 => lastScanTime > clearedAt
        /\ localStorage.scan_data # NullScan => localStorage.last_scan_time > clearedAt
        /\ localStorage.last_scan_time # 0 => localStorage.last_scan_time > clearedAt

\* C26: whenever performInventoryScan ends by reporting a failure (an error
\* toast), scanData, lastScanTime, isDataFromCache and the localStorage cache
\* are as they were: the settling of a fetch that shows an error toast changes
\* none of them.
C26_FailureKeepsState ==
    [][ (FetchSettles /\ toast' \in ErrorToasts) =>
            UNCHANGED <<scanData, lastScanTime, isDataFromCache, localStorage>> ]_vars

\* C27: every started scan eventually ends with loading false and the scan
\* button enabled again, whichever way its request settles, given that the
\* request settles.
C27_ScanEnds == scanLoading ~> ~scanLoading

\* a scan has ended in the catch block and the button is enabled again
C27_Witness ==
    /\ ~scanLoading
    /\ scanSeq >= 1
    /\ toast = "Failed to perform inventory scan"
    /\ loadingMessage = ""
    /\ \A f \in scanFetch : f.instance # instance

(***************************************************************************)
(* Properties of the Settings and Login forms.                             *)
(***************************************************************************)
\* C28: the page shows 'Password updated successfully!' with the form
\* cleared only after an updatePassword call that reported no error, and a
\* call is made only with a new password equal to its confirmation
C28_SuccessOnlyWithoutError ==
    /\ settingsToast = "Password updated successfully!" => updateResult = "ok"
    /\ updateResult = "error-object" => settingsToast # "Password updated successfully!"
    /\ passwordUpdate # NoCall => passwordUpdate.newPassword = passwordUpdate.confirmPassword

(***************************************************************************)
(* Properties of the simulated shortage events.                            *)
(***************************************************************************)
\* C29: a simulated shortage event changes no row but that of the selected
\* drug, keeps the rows in place, never increases a stock_level and never
\* leaves one below 10
C29_ShortageOnlySelected ==
    [][/\ Len(inventoryList') = Len(inventoryList)
       /\ \A i \in 1..Len(inventoryList) :
            /\ inventoryList'[i] # inventoryList[i] =>
                    /\ inventoryList[i].drug_name = shortageTimer
                    /\ inventoryList'[i].drug_name = inventoryList[i].drug_name
                    /\ inventoryList'[i].avg_daily_use = inventoryList[i].avg_daily_use
            /\ inventoryList'[i].stock_level <= inventoryList[i].stock_level
            /\ inventoryList'[i].stock_level >= 10]_vars

\* two events on one drug have brought its stock to the minimum, and the
\* other rows are as shipped
C29_Witness ==
    /\ mounted = "DashboardSim"
    /\ Len(alerts) = Len(MockAlerts) + 2
    /\ \E i \in 1..Len(inventoryList) :
          /\ inventoryList[i].stock_level = 10
          /\ MockInventory[i].stock_level > 10
          /\ \A j \in (1..Len(inventoryList)) \ {i} : inventoryList[j] = MockInventory[j]

\* C30: a submission of the login form invokes signUp only when Supabase
\* is configured, the email is well formed, the password has at least 8
\* characters with a lowercase letter, an uppercase letter and a digit, and
\* the password equals its confirmation; a rejected submission makes no
\* auth call and leaves loading false
C30_SignUpOnlyWhenValid ==
    [][HandleAuth =>
        /\ (authCall' # NoCall /\ authCall'.signUp) =>
              /\ isSupabaseConfigured
              /\ validateEmail(authCall'.email)
              /\ Len(authCall'.password) >= 8
              /\ CharsOf(authCall'.password) \cap CharsOf(LowercaseLetters) # {}
              /\ CharsOf(authCall'.password) \cap CharsOf(UppercaseLetters) # {}
              /\ CharsOf(authCall'.password) \cap CharsOf(Digits) # {}
              /\ authCall'.password = formData.confirmPassword
        /\ ~(/\ isSupabaseConfigured
              /\ validateEmail(formData.email)
              /\ formData.password # ""
              /\ isSignUp =>
                    /\ Len(formData.password) >= 8
                    /\ CharsOf(formData.password) \cap CharsOf(LowercaseLetters) # {}
                    /\ CharsOf(formData.password) \cap CharsOf(UppercaseLetters) # {}
                    /\ CharsOf(formData.password) \cap CharsOf(Digits) # {}
                    /\ formData.password = formData.confirmPassword) =>
              /\ authCall' = NoCall
              /\ authCalls' = authCalls
              /\ ~loginLoading']_vars

\* a sign up has been sent, and a submission has been rejected for its
\* password
C30_Witness ==
    /\ mounted = "Login"
    /\ switchTimers > 0
    /\ authCall = NoCall
    /\ isSignUp
    /\ formErrors.password # ""
    /\ ~loginLoading

====
